---- MODULE Spec2Model ----
(***************************************************************************)
(* The View rendering pipeline of G2 (src/src/visual/scale/index.ts):      *)
(* a tree of views, the scale pool kept by the root view, the three        *)
(* recursive render passes, the lifecycle operations clear / destroy,      *)
(* child view creation and the plot events derived from canvas events.     *)
(*                                                                         *)
(* Objects that JavaScript shares by reference (data arrays, option         *)
(* objects, scale instances) live in heaps and are named by references,    *)
(* so that aliasing and instance identity are part of the state.           *)
(***************************************************************************)
EXTENDS Integers, Sequences, FiniteSets, TLC

(* ------------------------------------------------------------------ *)
(* Bounds of the model                                                     *)
(* ------------------------------------------------------------------ *)
MaxViews == 2          \* views in the tree, the root included
MaxGeometries == 2     \* geometries added to the views of the tree
MaxScales == 6         \* scale instances ever constructed
MaxRefs == 14          \* option objects ever allocated
MaxCalls == 3          \* canvas events delivered, or options changed, in one behaviour
MaxFacetViews == 4     \* views created by the facets of the tree in one behaviour

(* ------------------------------------------------------------------ *)
(* Values                                                                  *)
(* ------------------------------------------------------------------ *)
Fields == {"year", "value"}
FieldKinds == [year |-> "string", value |-> "number"]

DataA == << [year |-> "1991", value |-> 13], [year |-> "1992", value |-> 34] >>
DataB == << [year |-> "1993", value |-> 5] >>
Row94 == [year |-> "1994", value |-> 34]

Undefined == 0         \* the null reference
EmptyDef == [k \in {} |-> 0]
NoScales == [f \in {} |-> 0]

\* { ...a, ...b }: the keys of b win
Spread(a, b) == [k \in (DOMAIN a) \cup (DOMAIN b) |-> IF k \in DOMAIN b THEN b[k] ELSE a[k]]

\* @antv/util get(obj, [field]): undefined (modelled as the empty definition) when absent
Get(obj, f) == IF f \in DOMAIN obj THEN obj[f] ELSE EmptyDef

RECURSIVE Uniq(_)
Uniq(s) ==
  IF s = <<>> THEN <<>>
  ELSE LET r == Uniq(SubSeq(s, 1, Len(s) - 1))
           x == s[Len(s)]
       IN IF \E i \in 1..Len(r) : r[i] = x THEN r ELSE Append(r, x)

Range(s) == {s[i] : i \in 1..Len(s)}

\* rationals as <<numerator, denominator>>, the range of a scale as a pair of them
RECURSIVE Gcd(_, _)
Gcd(a, b) == IF b = 0 THEN a ELSE Gcd(b, a % b)
Frac(n, d) == LET g == Gcd(n, d) IN << n \div g, d \div g >>
Inf == << 1, 0 >>
NegInf == << -1, 0 >>
DefaultRange == << Frac(0, 1), Frac(1, 1) >>

(* ------------------------------------------------------------------ *)
(* State                                                                   *)
(* ------------------------------------------------------------------ *)
VARIABLES
  parent,              \* view.parent, 0 for the root; views are 1..Len(parent)
  views,               \* view.views: the child views, in creation order
  geometries,          \* view.geometries
  controllers,         \* view.controllers: records [name, state]
  interactions,        \* view.interactions: name -> stored instance
  region,              \* view.region, in halves of the parent box
  viewBBox,            \* view.viewBBox
  coordinateBBox,      \* view.coordinateBBox
  options,             \* view.options: references into the heap
  coordinateController,\* view.coordinateController: reference of its option
  filteredData,        \* view.filteredData
  scalePool,           \* view.scalePool: key -> scale instance
  coordinateInstance,  \* view.coordinateInstance
  isPreMouseInPlot,    \* view.isPreMouseInPlot
  destroyed,           \* Base.destroyed
  groups,              \* the three layer groups of the view: "attached" / "removed"
  events,              \* view.getEvents(): the names that have a listener
  facetInstance,       \* view.facetInstance: the facet of the view, if any
  tooltipItems,        \* the items of the tooltip controller of the view
  themeObject,         \* view.themeObject
  scaleDefInst,        \* a ScaleDef instance: its options, its scale and its tickValues
  tooltipCtl,          \* a Tooltip controller with the coordinate and geometries of its view
  heap,                \* arrays and option objects, by reference
  scaleHeap,           \* scale instances, by reference
  log,                 \* what the last operation did, in order
  lastOp,              \* the last operation and its arguments
  callCount            \* canvas events delivered and options changed so far

vars == << parent, views, geometries, controllers, interactions, region, viewBBox,
           coordinateBBox, options, coordinateController, filteredData, scalePool,
           coordinateInstance, isPreMouseInPlot, destroyed, groups, events, facetInstance, tooltipItems,
           themeObject, scaleDefInst, tooltipCtl,
           heap, scaleHeap, log, lastOp, callCount >>

\* the object graph as one value, for the operators that transform it
World ==
  [ parent |-> parent, views |-> views, geometries |-> geometries,
    controllers |-> controllers, interactions |-> interactions, region |-> region,
    viewBBox |-> viewBBox, coordinateBBox |-> coordinateBBox, options |-> options,
    coordinateController |-> coordinateController, filteredData |-> filteredData,
    scalePool |-> scalePool, coordinateInstance |-> coordinateInstance,
    isPreMouseInPlot |-> isPreMouseInPlot, destroyed |-> destroyed, groups |-> groups,
    events |-> events, facetInstance |-> facetInstance,
    tooltipItems |-> tooltipItems, themeObject |-> themeObject, scaleDefInst |-> scaleDefInst,
    tooltipCtl |-> tooltipCtl, heap |-> heap, scaleHeap |-> scaleHeap, log |-> log ]

Becomes(w) ==
  /\ parent' = w.parent
  /\ views' = w.views
  /\ geometries' = w.geometries
  /\ controllers' = w.controllers
  /\ interactions' = w.interactions
  /\ region' = w.region
  /\ viewBBox' = w.viewBBox
  /\ coordinateBBox' = w.coordinateBBox
  /\ options' = w.options
  /\ coordinateController' = w.coordinateController
  /\ filteredData' = w.filteredData
  /\ scalePool' = w.scalePool
  /\ coordinateInstance' = w.coordinateInstance
  /\ isPreMouseInPlot' = w.isPreMouseInPlot
  /\ destroyed' = w.destroyed
  /\ groups' = w.groups
  /\ events' = w.events
  /\ facetInstance' = w.facetInstance
  /\ tooltipItems' = w.tooltipItems
  /\ themeObject' = w.themeObject
  /\ scaleDefInst' = w.scaleDefInst
  /\ tooltipCtl' = w.tooltipCtl
  /\ heap' = w.heap
  /\ scaleHeap' = w.scaleHeap
  /\ log' = w.log

\* the state is the object graph w
Is(w) ==
  /\ parent = w.parent
  /\ views = w.views
  /\ geometries = w.geometries
  /\ controllers = w.controllers
  /\ interactions = w.interactions
  /\ region = w.region
  /\ viewBBox = w.viewBBox
  /\ coordinateBBox = w.coordinateBBox
  /\ options = w.options
  /\ coordinateController = w.coordinateController
  /\ filteredData = w.filteredData
  /\ scalePool = w.scalePool
  /\ coordinateInstance = w.coordinateInstance
  /\ isPreMouseInPlot = w.isPreMouseInPlot
  /\ destroyed = w.destroyed
  /\ groups = w.groups
  /\ events = w.events
  /\ facetInstance = w.facetInstance
  /\ tooltipItems = w.tooltipItems
  /\ themeObject = w.themeObject
  /\ scaleDefInst = w.scaleDefInst
  /\ tooltipCtl = w.tooltipCtl
  /\ heap = w.heap
  /\ scaleHeap = w.scaleHeap
  /\ log = w.log

ViewIds == 1..Len(parent)

\* log entries: ev is what happened, view the view it happened on, cycle the view
\* whose paint() call it happened in (0 outside of a paint() call)
Entry(ev, v, c) == [ev |-> ev, view |-> v, cycle |-> c]
Emit(w, ev, v, c) == [w EXCEPT !.log = Append(@, Entry(ev, v, c))]

(* ------------------------------------------------------------------ *)
(* Scales                                                                  *)
(* ------------------------------------------------------------------ *)
NoKey == << >>

RECURSIVE getRootView(_, _)
getRootView(w, v) == IF w.parent[v] # 0 THEN getRootView(w, w.parent[v]) ELSE v

\* a key that leaves the view out
getScaleKey_fieldOnly(v, field) == << 0, field >>

\* `${this.id}-${field}`
getScaleKey(v, field) == << v, field >>

\* options.scales of a view, as a value
ScalesOf(w, v) ==
  IF w.options[v].scales = Undefined THEN NoScales ELSE w.heap[w.options[v].scales]

DataOf(w, v) == w.heap[w.options[v].data]

\* ScalePool.getScale
PoolGetScale(pool, key) == IF key \in DOMAIN pool THEN pool[key] ELSE Undefined

getScaleByField(w, v, field, key) ==
  LET defaultKey == IF key # NoKey THEN key ELSE getScaleKey(v, field)
      pool == w.scalePool[getRootView(w, v)]
  IN PoolGetScale(pool, defaultKey)

\* the values of a field in the rows of data, without duplicates
FieldValues(field, data) == Uniq([i \in 1..Len(data) |-> data[i][field]])

\* the types of the scale library that are category scales
CategoryTypes == {"cat", "timeCat"}

ScaleType(field, data, def) ==
  IF "type" \in DOMAIN def THEN def["type"]
  ELSE IF data = << >> THEN "identity"
  ELSE IF FieldKinds[field] = "number" THEN "linear" ELSE "cat"

NewScale(field, data, def) ==
  LET type == ScaleType(field, data, def)
  IN [ field |-> field,
       def |-> def,
       type |-> type,
       values |-> IF type = "identity" /\ data = << >> THEN << field >>
                  ELSE FieldValues(field, data),
       range |-> IF "range" \in DOMAIN def THEN def["range"] ELSE DefaultRange ]

\* ScalePool.createScale: update the entry of the key in place, or construct and register
PoolCreateScale(w, v, field, data, def, key, c) ==
  IF key \in DOMAIN w.scalePool[v]
  THEN Emit([w EXCEPT !.scaleHeap[w.scalePool[v][key]] = NewScale(field, data, def)],
            "scale.update", v, c)
  ELSE Emit([w EXCEPT !.scaleHeap = Append(@, NewScale(field, data, def)),
                      !.scalePool[v] = @ @@ (key :> (Len(w.scaleHeap) + 1))],
            "scale.create", v, c)

\* ScalePool.clear
PoolClear(w, v) == [w EXCEPT !.scalePool[v] = NoScales]

RECURSIVE ConcatValues(_, _, _)
ConcatValues(sh, field, n) ==
  IF n = 0 THEN << >>
  ELSE ConcatValues(sh, field, n - 1) \o
       (IF sh[n].field = field /\ "sync" \in DOMAIN sh[n].def THEN sh[n].values ELSE << >>)

\* ScalePool.sync: the scales of the pool that are marked sync share one domain per field
PoolSync(w, v, c) ==
  LET ids == {w.scalePool[v][k] : k \in DOMAIN w.scalePool[v]}
      live == [i \in 1..Len(w.scaleHeap) |->
                 IF i \in ids THEN w.scaleHeap[i]
                 ELSE [w.scaleHeap[i] EXCEPT !.def = EmptyDef]]
      synced == [i \in 1..Len(w.scaleHeap) |->
                   IF i \in ids /\ "sync" \in DOMAIN w.scaleHeap[i].def
                   THEN [w.scaleHeap[i] EXCEPT
                           !.values = Uniq(ConcatValues(live, w.scaleHeap[i].field, Len(live)))]
                   ELSE w.scaleHeap[i]]
  IN IF synced = w.scaleHeap THEN w
     ELSE Emit([w EXCEPT !.scaleHeap = synced], "scale.sync", v, c)

\* a createScale that derives the key again on every level
RECURSIVE createScale_rederive(_, _, _, _, _, _, _)
createScale_rederive(w, v, field, data, scaleDef, key, c) ==
  LET mergedScaleDef == Spread(Get(ScalesOf(w, v), field), scaleDef)
      defaultKey == IF key \in {NoKey} \cup {getScaleKey(u, field) : u \in 1..Len(w.parent)}
                    THEN getScaleKey(v, field) ELSE key
  IN IF w.parent[v] # 0
     THEN createScale_rederive(w, w.parent[v], field, data, mergedScaleDef, defaultKey, c)
     ELSE PoolCreateScale(w, v, field, data, mergedScaleDef, defaultKey, c)

\* a createScale that registers the scale in the pool of the view it is called on
createScale_ownPool(w, v, field, data, scaleDef, key, c) ==
  LET mergedScaleDef == Spread(Get(ScalesOf(w, v), field), scaleDef)
      defaultKey == IF key # NoKey THEN key ELSE getScaleKey(v, field)
  IN PoolCreateScale(w, v, field, data, mergedScaleDef, defaultKey, c)

\* a createScale in which the definition of the view overrides the one handed in
RECURSIVE createScale_ancestorWins(_, _, _, _, _, _, _)
createScale_ancestorWins(w, v, field, data, scaleDef, key, c) ==
  LET mergedScaleDef == Spread(scaleDef, Get(ScalesOf(w, v), field))
      defaultKey == IF key # NoKey THEN key ELSE getScaleKey(v, field)
  IN IF w.parent[v] # 0
     THEN createScale_ancestorWins(w, w.parent[v], field, data, mergedScaleDef, defaultKey, c)
     ELSE PoolCreateScale(w, v, field, data, mergedScaleDef, defaultKey, c)

RECURSIVE createScale(_, _, _, _, _, _, _)
createScale(w, v, field, data, scaleDef, key, c) ==
  LET currentScaleDef == Get(ScalesOf(w, v), field)
      mergedScaleDef == Spread(currentScaleDef, scaleDef)
      defaultKey == IF key # NoKey THEN key ELSE getScaleKey(v, field)
  IN IF w.parent[v] # 0
     THEN createScale(w, w.parent[v], field, data, mergedScaleDef, defaultKey, c)
     ELSE PoolCreateScale(w, v, field, data, mergedScaleDef, defaultKey, c)

(* ------------------------------------------------------------------ *)
(* Geometries of a view                                                    *)
(* ------------------------------------------------------------------ *)
RECURSIVE Flatten(_)
Flatten(ss) == IF ss = << >> THEN << >> ELSE Head(ss) \o Flatten(Tail(ss))

getScaleFields(w, v) ==
  Uniq(Flatten([i \in 1..Len(w.geometries[v]) |-> w.geometries[v][i].scaleFields]))

getGroupedFields(w, v) ==
  Uniq(Flatten([i \in 1..Len(w.geometries[v]) |-> w.geometries[v][i].groupFields]))

\* a lookup in the pool of the view itself
getGeometryScales_ownPool(w, v) ==
  [f \in Range(getScaleFields(w, v)) |-> PoolGetScale(w.scalePool[v], getScaleKey(v, f))]

getGeometryScales(w, v) ==
  LET fields == getScaleFields(w, v)
  IN [f \in Range(fields) |-> getScaleByField(w, v, f, NoKey)]

\* Geometry.getXScale / getYScale: the scale the geometry was given for its field
GeometryScale(g, f) == IF f \in DOMAIN g.scales THEN g.scales[f] ELSE Undefined

getXScale(w, v) ==
  IF w.geometries[v] = << >> THEN Undefined
  ELSE GeometryScale(w.geometries[v][1], w.geometries[v][1].xField)

getYScales(w, v) ==
  Uniq([i \in 1..Len(w.geometries[v]) |->
          GeometryScale(w.geometries[v][i], w.geometries[v][i].yField)])

(* ------------------------------------------------------------------ *)
(* Boxes and coordinates                                                   *)
(* ------------------------------------------------------------------ *)
Canvas == [width |-> 24, height |-> 24]
DefaultPadding == [x |-> 2, y |-> 2]

BBox(x, y, width, height) == [x |-> x, y |-> y, width |-> width, height |-> height]
Bl(b) == [x |-> b.x, y |-> b.y + b.height]
Tr(b) == [x |-> b.x + b.width, y |-> b.y]

FullRegion == [start |-> [x |-> 0, y |-> 0], end |-> [x |-> 2, y |-> 2]]
LeftRegion == [start |-> [x |-> 0, y |-> 0], end |-> [x |-> 1, y |-> 2]]

\* a fraction of a length, the fraction given in halves
Part(len, halves) == (len * halves) \div 2

\* a calculateViewBBox that takes the view box of the parent
calculateViewBBox_parentViewBox(w, v) ==
  LET box == IF w.parent[v] # 0 THEN w.viewBBox[w.parent[v]]
             ELSE BBox(0, 0, Canvas.width, Canvas.height)
      start == w.region[v].start
      end == w.region[v].end
      viewBox == BBox(box.x + Part(box.width, start.x),
                      box.y + Part(box.height, start.y),
                      Part(box.width, end.x - start.x),
                      Part(box.height, end.y - start.y))
  IN [w EXCEPT !.viewBBox[v] = viewBox, !.coordinateBBox[v] = viewBox]

calculateViewBBox(w, v) ==
  LET box == IF w.parent[v] # 0 THEN w.coordinateBBox[w.parent[v]]
             ELSE BBox(0, 0, Canvas.width, Canvas.height)
      start == w.region[v].start
      end == w.region[v].end
      viewBox == BBox(box.x + Part(box.width, start.x),
                      box.y + Part(box.height, start.y),
                      Part(box.width, end.x - start.x),
                      Part(box.height, end.y - start.y))
  IN [w EXCEPT !.viewBBox[v] = viewBox, !.coordinateBBox[v] = viewBox]

NoCoordinate == [type |-> "undefined"]
DefaultCoordinateOption == [type |-> "rect", transposed |-> FALSE, fullCircle |-> FALSE]

\* CoordinateController.create: a fresh instance of the configured type over the box
ControllerCreate(coordinateOption, start, end) ==
  [ type |-> coordinateOption.type,
    isPolar |-> coordinateOption.type \in {"polar", "theta"},
    isTransposed |-> coordinateOption.transposed,
    fullCircle |-> coordinateOption.fullCircle,
    start |-> start,
    end |-> end ]

\* CoordinateController.adjust: the box is applied again to the existing instance
ControllerAdjust(instance, coordinateOption, start, end) ==
  IF instance = NoCoordinate THEN ControllerCreate(coordinateOption, start, end)
  ELSE [instance EXCEPT !.start = start, !.end = end]

createCoordinate(w, v) ==
  LET start == Bl(w.coordinateBBox[v])
      end == Tr(w.coordinateBBox[v])
  IN [w EXCEPT !.coordinateInstance[v] =
        ControllerCreate(w.heap[w.coordinateController[v]], start, end)]

adjustCoordinate(w, v) ==
  LET start == Bl(w.coordinateBBox[v])
      end == Tr(w.coordinateBBox[v])
  IN [w EXCEPT !.coordinateInstance[v] =
        ControllerAdjust(w.coordinateInstance[v], w.heap[w.coordinateController[v]], start, end)]

\* the layout function: the components take the padding off the coordinate box
defaultLayout(w, v) ==
  LET b == w.coordinateBBox[v]
  IN [w EXCEPT !.coordinateBBox[v] =
        BBox(b.x + DefaultPadding.x, b.y + DefaultPadding.y,
             b.width - 2 * DefaultPadding.x, b.height - 2 * DefaultPadding.y)]

isFullCircle(coordinate) == coordinate.isPolar /\ coordinate.fullCircle

(* ------------------------------------------------------------------ *)
(* The data pass                                                           *)
(* ------------------------------------------------------------------ *)
\* no filter is configured in this model: filterData returns the data
\* the filter conditions of the callers, as functions of (value, datum)
NoFilters == [f \in {} |-> ""]
Condition(name, value, datum) ==
  CASE name = "not1992" -> value # "1992"
    [] name = "over20" -> value > 20 /\ datum.value > 20

\* fields.every(field => filters[field](datum[field], datum))
Every(filters, datum) == \A field \in DOMAIN filters : Condition(filters[field], datum[field], datum)

\* the same with some in place of every
Some(filters, datum) == \E field \in DOMAIN filters : Condition(filters[field], datum[field], datum)

\* filter(data, predicate) of @antv/util: the rows that pass, one after the other
RECURSIVE FilterRows(_, _, _)
FilterRows(filters, data, i) ==
  IF i > Len(data) THEN << >>
  ELSE IF Every(filters, data[i]) THEN << data[i] >> \o FilterRows(filters, data, i + 1)
  ELSE FilterRows(filters, data, i + 1)

RECURSIVE FilterRowsSome(_, _, _)
FilterRowsSome(filters, data, i) ==
  IF i > Len(data) THEN << >>
  ELSE IF Some(filters, data[i]) THEN << data[i] >> \o FilterRowsSome(filters, data, i + 1)
  ELSE FilterRowsSome(filters, data, i + 1)

\* a filterData that keeps the rows that pass the filter of some field
filterData_some(w, v, data) ==
  LET filters == w.options[v].filters
  IN IF Cardinality(DOMAIN filters) = 0 THEN data ELSE FilterRowsSome(filters, data, 1)

filterData(w, v, data) ==
  LET filters == w.options[v].filters
  IN IF Cardinality(DOMAIN filters) = 0 THEN data ELSE FilterRows(filters, data, 1)

\* a doFilterData that keeps the rows of the previous pass when there are some
doFilterData_once(w, v) ==
  IF w.filteredData[v] # << >> THEN w
  ELSE [w EXCEPT !.filteredData[v] = filterData(w, v, DataOf(w, v))]

doFilterData(w, v) == [w EXCEPT !.filteredData[v] = filterData(w, v, DataOf(w, v))]

\* a createOrUpdateScales that builds every scale from the filtered rows
RECURSIVE createOrUpdateScalesFrom_filtered(_, _, _, _, _)
createOrUpdateScalesFrom_filtered(w, v, fields, i, c) ==
  IF i > Len(fields) THEN w
  ELSE LET field == fields[i]
           scaleDef == Get(ScalesOf(w, v), field)
       IN createOrUpdateScalesFrom_filtered(
            createScale(w, v, field, w.filteredData[v], scaleDef, NoKey, c),
            v, fields, i + 1, c)

RECURSIVE createOrUpdateScalesFrom(_, _, _, _, _)
createOrUpdateScalesFrom(w, v, fields, i, c) ==
  IF i > Len(fields) THEN w
  ELSE LET field == fields[i]
           scaleDef == Get(ScalesOf(w, v), field)
           data == IF field \in Range(getGroupedFields(w, v)) THEN DataOf(w, v)
                   ELSE w.filteredData[v]
       IN createOrUpdateScalesFrom(createScale(w, v, field, data, scaleDef, NoKey, c),
                                   v, fields, i + 1, c)

createOrUpdateScales(w, v, c) == createOrUpdateScalesFrom(w, v, getScaleFields(w, v), 1, c)

syncScale(w, v, c) == PoolSync(w, getRootView(w, v), c)

\* the range adjustCategoryScaleRange gives a scale of count values
\* a range rule that knows no full circle
CategoryRange_noFullCircle(count, coordinate) ==
  IF count = 1 THEN << Frac(1, 2), Frac(1, 1) >>
  ELSE IF count = 0 THEN << Inf, NegInf >>
  ELSE << Frac(1, 2 * count), Frac(2 * count - 1, 2 * count) >>

\* a range rule with no case for a single category
CategoryRange_noSingle(count, coordinate) ==
  IF count = 0
    THEN (IF isFullCircle(coordinate) /\ ~coordinate.isTransposed
          THEN << Frac(0, 1), NegInf >> ELSE << Inf, NegInf >>)
  ELSE IF isFullCircle(coordinate)
    THEN (IF ~coordinate.isTransposed
          THEN << Frac(0, 1), Frac(count - 1, count) >>
          ELSE << Frac(5, 13 * count), Frac(13 * count - 5, 13 * count) >>)
  ELSE << Frac(1, 2 * count), Frac(2 * count - 1, 2 * count) >>

\* get(this.theme, 'widthRatio.multiplePie', 1 / 1.3): this.theme is the method
\* theme() of the view (the theme is held in this.themeObject), a function
\* without a widthRatio, so get() gives the default
multiplePieWidthRatio == Frac(10, 13)

CategoryRange(count, coordinate) ==
  IF count = 1 THEN << Frac(1, 2), Frac(1, 1) >>
  ELSE IF count = 0
    THEN (IF isFullCircle(coordinate) /\ ~coordinate.isTransposed
          THEN << Frac(0, 1), NegInf >> ELSE << Inf, NegInf >>)
  ELSE IF isFullCircle(coordinate)
    THEN (IF ~coordinate.isTransposed
          THEN << Frac(0, 1), Frac(count - 1, count) >>
          ELSE LET widthRatio == multiplePieWidthRatio
                   whole == 2 * count * widthRatio[2]
               IN << Frac(widthRatio[1], whole), Frac(whole - widthRatio[1], whole) >>)
  ELSE << Frac(1, 2 * count), Frac(2 * count - 1, 2 * count) >>

RECURSIVE adjustCategoryScaleRangeFrom(_, _, _, _, _)
adjustCategoryScaleRangeFrom(w, v, xyScales, i, c) ==
  IF i > Len(xyScales) THEN w
  ELSE LET id == xyScales[i]
           scale == w.scaleHeap[id]
           adjust == /\ scale.type \in CategoryTypes \cup {"identity"}
                     /\ "range" \notin DOMAIN Get(ScalesOf(w, v), scale.field)
           w1 == IF adjust
                 THEN Emit([w EXCEPT !.scaleHeap[id].range =
                              CategoryRange(Len(scale.values), w.coordinateInstance[v])],
                           "scale.range", v, c)
                 ELSE w
       IN adjustCategoryScaleRangeFrom(w1, v, xyScales, i + 1, c)

adjustCategoryScaleRange(w, v, c) ==
  LET all == << getXScale(w, v) >> \o getYScales(w, v)
      xyScales == SelectSeq(all, LAMBDA e : e # Undefined)
  IN adjustCategoryScaleRangeFrom(w, v, xyScales, 1, c)

adjustScales(w, v, c) == adjustCategoryScaleRange(syncScale(w, v, c), v, c)

initGeometries(w, v, isUpdate, c) ==
  LET w1 == createOrUpdateScales(w, v, c)
      given == getGeometryScales(w1, v)
      w2 == [w1 EXCEPT !.geometries[v] =
               [i \in 1..Len(@) |->
                  [@[i] EXCEPT !.scales = given,
                               !.coordinate = w1.coordinateInstance[v],
                               !.data = w1.filteredData[v]]]]
      w3 == Emit(w2, IF isUpdate THEN "geometries.update" ELSE "geometries.init", v, c)
  IN adjustScales(w3, v, c)

\* the facet of a view: none, or an instance of a registered type
NoFacet == [type |-> "undefined"]

\* the one result of a step, computed before the next step starts
Only(results) == CHOOSE r \in results : TRUE

RECURSIVE removeViews(_, _, _, _)
RECURSIVE removeView(_, _, _)
RECURSIVE createFacetViews(_, _, _, _)

\* Facet.clear(): the views of the previous expansion are removed from the view
FacetClear(w, v) ==
  [removeViews(w, v, w.facetInstance[v].facetViews, 1) EXCEPT
     !.facetInstance[v].facetViews = << >>]

\* Facet.init(): the data is split by the first field of the facet, one view per value
FacetInit(w, v) ==
  createFacetViews(w, v, FieldValues(w.facetInstance[v].cfg.fields[1], w.filteredData[v]), 1)

\* Facet.render(): the views are laid out in the grid of the facet (no eachView callback)
FacetRender(w, v, c) == Emit(w, "facet.render", v, c)

\* facetInstance.clear(), init() and render()
renderFacet(w, v, c) ==
  IF w.facetInstance[v] = NoFacet THEN w
  ELSE IF w.facetInstance[v].destroyed THEN FacetRender(w, v, c)
  ELSE FacetRender(FacetInit(FacetClear(w, v), v), v, c)

\* a data pass that recurses into the views the view had before its facet was expanded
RECURSIVE renderDataRecursive_staleViews(_, _, _, _)
RECURSIVE renderDataEach_staleViews(_, _, _, _, _)
renderDataRecursive_staleViews(w, v, isUpdate, c) ==
  LET w1 == Emit(w, "data", v, c)
      w2 == doFilterData(w1, v)
      w3 == createCoordinate(w2, v)
      w4 == initGeometries(w3, v, isUpdate, c)
      w5 == renderFacet(w4, v, c)
  IN renderDataEach_staleViews(w5, w4.views[v], 1, isUpdate, c)
renderDataEach_staleViews(w, vs, i, isUpdate, c) ==
  IF i > Len(vs) THEN w
  ELSE renderDataEach_staleViews(renderDataRecursive_staleViews(w, vs[i], isUpdate, c),
                                 vs, i + 1, isUpdate, c)

RECURSIVE renderDataRecursive(_, _, _, _)
RECURSIVE renderDataEach(_, _, _, _, _)
renderDataRecursive(w, v, isUpdate, c) ==
  LET w1 == Emit(w, "data", v, c)
      w2 == doFilterData(w1, v)
      w3 == createCoordinate(w2, v)
      w4 == initGeometries(w3, v, isUpdate, c)
  IN Only({renderDataEach(w5, w5.views[v], 1, isUpdate, c) : w5 \in {renderFacet(w4, v, c)}})
renderDataEach(w, vs, i, isUpdate, c) ==
  IF i > Len(vs) THEN w
  ELSE Only({renderDataEach(w1, vs, i + 1, isUpdate, c) :
                w1 \in {renderDataRecursive(w, vs[i], isUpdate, c)}})

(* ------------------------------------------------------------------ *)
(* The layout pass and the paint pass                                      *)
(* ------------------------------------------------------------------ *)
\* Controller.update, or Controller.clear followed by Controller.render
initComponents(w, v, isUpdate, c) ==
  Emit([w EXCEPT !.controllers[v] = [i \in 1..Len(@) |-> [@[i] EXCEPT !.state = "rendered"]]],
       IF isUpdate THEN "controllers.update" ELSE "controllers.render", v, c)

doLayout(w, v) == defaultLayout(w, v)

RECURSIVE renderLayoutRecursive(_, _, _, _)
RECURSIVE renderLayoutEach(_, _, _, _, _)
renderLayoutRecursive(w, v, isUpdate, c) ==
  LET w1 == calculateViewBBox(Emit(w, "layout", v, c), v)
      w2 == adjustCoordinate(w1, v)
      w3 == initComponents(w2, v, isUpdate, c)
      w4 == doLayout(w3, v)
  IN Only({renderLayoutEach(w5, w5.views[v], 1, isUpdate, c) :
             w5 \in {adjustCoordinate(w4, v)}})
renderLayoutEach(w, vs, i, isUpdate, c) ==
  IF i > Len(vs) THEN w
  ELSE Only({renderLayoutEach(w1, vs, i + 1, isUpdate, c) :
                w1 \in {renderLayoutRecursive(w, vs[i], isUpdate, c)}})

RECURSIVE paintGeometriesFrom(_, _, _, _, _)
paintGeometriesFrom(w, v, i, isUpdate, c) ==
  IF i > Len(w.geometries[v]) THEN w
  ELSE LET w1 == [w EXCEPT !.geometries[v][i] =
                    [@ EXCEPT !.coordinate = w.coordinateInstance[v],
                              !.canvasRegion = w.viewBBox[v],
                              !.animate = IF w.options[v].animate THEN @ ELSE FALSE]]
       IN paintGeometriesFrom(Emit(w1, "geometry.paint", v, c), v, i + 1, isUpdate, c)

paintGeometries(w, v, isUpdate, c) == paintGeometriesFrom(w, v, 1, isUpdate, c)

\* the components of the controllers are rendered: nothing of the view changes
renderComponents(w, v, isUpdate, c) == Emit(w, "components.render", v, c)

RECURSIVE renderPaintRecursive(_, _, _, _)
RECURSIVE renderPaintEach(_, _, _, _, _)
renderPaintRecursive(w, v, isUpdate, c) ==
  LET w1 == paintGeometries(Emit(w, "paint", v, c), v, isUpdate, c)
  IN Only({renderPaintEach(w2, w2.views[v], 1, isUpdate, c) :
             w2 \in {renderComponents(w1, v, isUpdate, c)}})
renderPaintEach(w, vs, i, isUpdate, c) ==
  IF i > Len(vs) THEN w
  ELSE Only({renderPaintEach(w1, vs, i + 1, isUpdate, c) :
                w1 \in {renderPaintRecursive(w, vs[i], isUpdate, c)}})

\* a paint() that handles layout and painting view by view
RECURSIVE paintInterleaved_each(_, _, _, _, _)
paintInterleaved_each(w, vs, i, isUpdate, c) ==
  IF i > Len(vs) THEN w
  ELSE LET u == vs[i]
           w1 == calculateViewBBox(Emit(w, "layout", u, c), u)
           w2 == adjustCoordinate(doLayout(initComponents(adjustCoordinate(w1, u), u, isUpdate, c), u), u)
           w3 == renderComponents(paintGeometries(Emit(w2, "paint", u, c), u, isUpdate, c), u, isUpdate, c)
           w4 == paintInterleaved_each(w3, w3.views[u], 1, isUpdate, c)
       IN paintInterleaved_each(w4, vs, i + 1, isUpdate, c)
paintInterleaved(w, v, isUpdate) ==
  paintInterleaved_each(renderDataRecursive(w, v, isUpdate, v), << v >>, 1, isUpdate, v)

paint(w, v, isUpdate) ==
  Only({renderPaintRecursive(w2, v, isUpdate, v) :
          w2 \in {renderLayoutRecursive(w1, v, isUpdate, v) :
                    w1 \in {renderDataRecursive(w, v, isUpdate, v)}}})

(* ------------------------------------------------------------------ *)
(* Lifecycle                                                               *)
(* ------------------------------------------------------------------ *)
render(w, v, isUpdate) ==
  Emit(paint(Emit(w, "beforerender", v, 0), v, isUpdate), "afterrender", v, 0)

\* a clear() that leaves the child views alone
clear_noChildren(w, v) ==
  LET w1 == PoolClear(Emit(w, "beforeclear", v, 0), v)
      w2 == [w1 EXCEPT !.filteredData[v] = << >>,
                       !.coordinateInstance[v] = NoCoordinate,
                       !.geometries[v] = << >>,
                       !.controllers[v] = [i \in 1..Len(@) |-> [@[i] EXCEPT !.state = "cleared"]]]
  IN Emit(w2, "afterclear", v, 0)

RECURSIVE clear(_, _)
RECURSIVE clearEach(_, _, _)
clear(w, v) ==
  LET w1 == PoolClear(Emit(w, "beforeclear", v, 0), v)
      w2 == [w1 EXCEPT !.filteredData[v] = << >>,
                       !.coordinateInstance[v] = NoCoordinate,
                       !.geometries[v] = << >>,
                       !.controllers[v] = [i \in 1..Len(@) |-> [@[i] EXCEPT !.state = "cleared"]]]
      w3 == clearEach(w2, w2.views[v], 1)
  IN Emit(w3, "afterclear", v, 0)
clearEach(w, vs, i) ==
  IF i > Len(vs) THEN w ELSE clearEach(clear(w, vs[i]), vs, i + 1)

RECURSIVE Descendants(_, _)
Descendants(w, v) ==
  Range(w.views[v]) \cup UNION {Descendants(w, u) : u \in Range(w.views[v])}

Subtree(w, v) == {v} \cup Descendants(w, v)

\* Interaction.destroy on a stored instance
DestroyInteraction(i) ==
  IF i.state = "none" THEN i ELSE [state |-> "destroyed", destroys |-> i.destroys + 1]

\* Base.destroy
BaseDestroy(w, v) == [w EXCEPT !.destroyed[v] = TRUE]

destroy(w, v) ==
  LET w1 == [Emit(w, "beforedestroy", v, 0) EXCEPT
               !.interactions[v] = [n \in DOMAIN @ |-> DestroyInteraction(@[n])]]
      w2 == clear(w1, v)
      w3 == [w2 EXCEPT
               !.controllers[v] = [i \in 1..Len(@) |-> [@[i] EXCEPT !.state = "destroyed"]],
               \* a group removed with remove(true) takes the groups added to it along
               !.groups = [u \in DOMAIN @ |-> IF u \in Subtree(w2, v) THEN "removed" ELSE @[u]]]
  IN BaseDestroy(w3, v)

\* View.interaction: the stored instance is destroyed; createInteraction gives
\* an instance or none, and only an instance is initialised and stored
interaction(w, v, name, created) ==
  LET w1 == [w EXCEPT !.interactions[v][name] = DestroyInteraction(@)]
  IN IF created
     THEN [w1 EXCEPT !.interactions[v][name] = [state |-> "live", destroys |-> 0]]
     ELSE w1

\* View.removeInteraction
removeInteraction(w, v, name) ==
  IF w.interactions[v][name].state # "none"
  THEN [w EXCEPT !.interactions[v][name] = [state |-> "none", destroys |-> 0]]
  ELSE w

\* View.data
setData(w, v, ref) == [w EXCEPT !.options[v].data = ref]

RECURSIVE changeData(_, _, _)
RECURSIVE changeDataEach(_, _, _, _)
changeData(w, v, ref) ==
  LET w1 == setData(Emit(w, "beforechangedata", v, 0), v, ref)
      w3 == Only({changeDataEach(w2, w2.views[v], 1, ref) : w2 \in {paint(w1, v, TRUE)}})
  IN Emit(w3, "afterchangedata", v, 0)
changeDataEach(w, vs, i, ref) ==
  IF i > Len(vs) THEN w ELSE changeDataEach(changeData(w, vs[i], ref), vs, i + 1, ref)

(* ------------------------------------------------------------------ *)
(* Construction                                                            *)
(* ------------------------------------------------------------------ *)
\* the registered component controllers, in registration order
ControllerNames == << "axis", "legend", "tooltip", "annotation" >>
InteractionNames == {"tooltip"}
NoInteractions == [n \in InteractionNames |-> [state |-> "none", destroys |-> 0]]

initComponentController(w, v) ==
  [w EXCEPT !.controllers[v] =
     @ \o [i \in 1..Len(ControllerNames) |-> [name |-> ControllerNames[i], state |-> "init"]]]

\* @antv/util clone: a deep copy is a new object of the same value
CloneRef(w, ref) == IF ref = Undefined THEN Undefined ELSE Len(w.heap) + 1
CloneHeap(w, ref) == IF ref = Undefined THEN w ELSE [w EXCEPT !.heap = Append(@, w.heap[ref])]

RECURSIVE NewView(_, _, _, _)
RECURSIVE createView(_, _, _)
RECURSIVE initOptionsFrom(_, _, _, _)
RECURSIVE initEach(_, _, _)

\* initOptions: the views declared in options.views are created
initOptionsFrom(w, v, declared, i) ==
  IF i > Len(declared) THEN w
  ELSE initOptionsFrom(createView(w, v, declared[i]), v, declared, i + 1)

initOptions(w, v) ==
  IF "views" \in DOMAIN w.options[v] THEN initOptionsFrom(w, v, w.options[v].views, 1) ELSE w

\* an init() that leaves the initialisation of a child view to its constructor
init_childrenOnce(w, v) ==
  LET w1 == initComponentController(calculateViewBBox(w, v), v)
      w2 == [w1 EXCEPT !.coordinateController[v] = w1.options[v].coordinate]
  IN initOptions(w2, v)

init(w, v) ==
  LET w1 == initComponentController(calculateViewBBox(w, v), v)
      w2 == [w1 EXCEPT !.coordinateController[v] = w1.options[v].coordinate]
      w3 == initOptions(w2, v)
  IN initEach(w3, w3.views[v], 1)
initEach(w, vs, i) ==
  IF i > Len(vs) THEN w ELSE initEach(init(w, vs[i]), vs, i + 1)

\* new View(props): the fields are set and init() runs
NewView(w, p, reg, opts) ==
  LET v == Len(w.parent) + 1
      w1 == [w EXCEPT !.parent = Append(@, p),
                      !.views = Append(@, << >>),
                      !.geometries = Append(@, << >>),
                      !.controllers = Append(@, << >>),
                      !.interactions = Append(@, NoInteractions),
                      !.region = Append(@, reg),
                      !.viewBBox = Append(@, BBox(0, 0, 0, 0)),
                      !.coordinateBBox = Append(@, BBox(0, 0, 0, 0)),
                      !.options = Append(@, opts),
                      !.coordinateController = Append(@, opts.coordinate),
                      !.filteredData = Append(@, << >>),
                      !.scalePool = Append(@, NoScales),
                      !.coordinateInstance = Append(@, NoCoordinate),
                      !.isPreMouseInPlot = Append(@, FALSE),
                      !.destroyed = Append(@, FALSE),
                      !.groups = Append(@, "attached"),
                      !.events = Append(@, {}),
                      !.facetInstance = Append(@, NoFacet),
                      !.tooltipItems = Append(@, << >>),
                      \* mergeTheme({}, theme), with theme: this.themeObject of the parent
                      !.themeObject = Append(@, IF p = 0 THEN EmptyDef ELSE w.themeObject[p])]
  IN init(w1, v)

\* a createView that hands the parent's scales object to the child
createView_sharedScales(w, p, reg) ==
  LET o == w.options[p]
      scalesRef == o.scales
      w1 == w
      axesRef == CloneRef(w1, o.axes)
      w2 == CloneHeap(w1, o.axes)
      coordinateRef == CloneRef(w2, w.coordinateController[p])
      w3 == CloneHeap(w2, w.coordinateController[p])
      tooltipRef == CloneRef(w3, o.tooltip)
      w4 == CloneHeap(w3, o.tooltip)
      legendsRef == CloneRef(w4, o.legends)
      w5 == CloneHeap(w4, o.legends)
      sharedOptions == [ data |-> o.data, scales |-> scalesRef, axes |-> axesRef,
                         coordinate |-> coordinateRef, tooltip |-> tooltipRef,
                         legends |-> legendsRef, animate |-> o.animate,
                         filters |-> NoFilters ]
      w6 == NewView(w5, p, reg, sharedOptions)
  IN [w6 EXCEPT !.views[p] = Append(@, Len(w5.parent) + 1)]

createView(w, p, reg) ==
  LET o == w.options[p]
      scalesRef == CloneRef(w, o.scales)
      w1 == CloneHeap(w, o.scales)
      axesRef == CloneRef(w1, o.axes)
      w2 == CloneHeap(w1, o.axes)
      coordinateRef == CloneRef(w2, w.coordinateController[p])
      w3 == CloneHeap(w2, w.coordinateController[p])
      tooltipRef == CloneRef(w3, o.tooltip)
      w4 == CloneHeap(w3, o.tooltip)
      legendsRef == CloneRef(w4, o.legends)
      w5 == CloneHeap(w4, o.legends)
      sharedOptions == [ data |-> o.data, scales |-> scalesRef, axes |-> axesRef,
                         coordinate |-> coordinateRef, tooltip |-> tooltipRef,
                         legends |-> legendsRef, animate |-> o.animate,
                         filters |-> NoFilters ]
      w6 == NewView(w5, p, reg, sharedOptions)
  IN [w6 EXCEPT !.views[p] = Append(@, Len(w5.parent) + 1)]

\* View.removeView: the view leaves this.views and is destroyed
removeView(w, p, v) ==
  IF v \in Range(w.views[p])
  THEN destroy([w EXCEPT !.views[p] = SelectSeq(@, LAMBDA u : u # v)], v)
  ELSE w

removeViews(w, p, vs, i) ==
  IF i > Len(vs) THEN w ELSE removeViews(removeView(w, p, vs[i]), p, vs, i + 1)

\* the rows of data whose field has the value
Slice(data, field, value) == SelectSeq(data, LAMBDA row : row[field] = value)

\* a view of the facet: view.createView(...) and data(the rows of its value)
createFacetView(w, v, value) ==
  LET w1 == createView(w, v, LeftRegion)
      id == Len(w1.parent)
      rows == Slice(w.filteredData[v], w.facetInstance[v].cfg.fields[1], value)
      w2 == setData([w1 EXCEPT !.heap = Append(@, rows)], id, Len(w1.heap) + 1)
  IN [w2 EXCEPT !.facetInstance[v].facetViews = Append(@, id)]

\* (a tree beyond the bound of the views is given up: no action accepts it)
createFacetViews(w, v, values, i) ==
  IF i > Len(values) THEN w
  ELSE LET w1 == createFacetView(w, v, values[i])
       IN IF Len(w1.parent) > MaxViews + MaxFacetViews THEN w1
          ELSE createFacetViews(w1, v, values, i + 1)

NewGeometry(g) ==
  [ scaleFields |-> g.scaleFields, groupFields |-> g.groupFields,
    xField |-> g.xField, yField |-> g.yField,
    scales |-> NoScales, coordinate |-> NoCoordinate, data |-> << >>,
    canvasRegion |-> BBox(0, 0, 0, 0), animate |-> TRUE ]

addGeometry(w, v, g) == [w EXCEPT !.geometries[v] = Append(@, NewGeometry(g))]

\* interval().position('year*value').color('year')
Interval == [ scaleFields |-> << "year", "value" >>, groupFields |-> << "year" >>,
              xField |-> "year", yField |-> "value" ]
GeometryOptions == {Interval}

(* ------------------------------------------------------------------ *)
(* Options                                                                 *)
(* ------------------------------------------------------------------ *)
\* View.filter: a function is stored as the filter of the field, null removes the filter
filter(w, v, field, condition) ==
  IF condition # "null"
  THEN [w EXCEPT !.options[v].filters = Spread(@, [f \in {field} |-> condition])]
  ELSE IF field \in DOMAIN w.options[v].filters
       THEN [w EXCEPT !.options[v].filters = [f \in (DOMAIN @) \ {field} |-> @[f]]]
       ELSE w

\* @antv/util set(this.options, [name, field], value): the object at name is
\* changed in place, and created first when there is none
SetIn(w, v, name, field, value) ==
  LET ref == w.options[v][name]
      entry == [f \in {field} |-> value]
  IN IF ref = Undefined
     THEN [w EXCEPT !.heap = Append(@, entry), !.options[v][name] = Len(w.heap) + 1]
     ELSE [w EXCEPT !.heap[ref] = Spread(@, entry)]

scale(w, v, field, scaleOption) == SetIn(w, v, "scales", field, scaleOption)

legend(w, v, field, legendOption) == SetIn(w, v, "legends", field, legendOption)

\* the controller holds the option passed in from now on
coordinate(w, v, coordinateOption) == [w EXCEPT !.heap[w.coordinateController[v]] = coordinateOption]

animate(w, v, status) == [w EXCEPT !.options[v].animate = status]

\* mergeTheme(this.themeObject, theme): the entries of theme are mixed into the theme held
mergeTheme(held, themeCfg) ==
  [k \in (DOMAIN held) \cup (DOMAIN themeCfg) |->
     IF k \notin DOMAIN themeCfg THEN held[k]
     ELSE IF k \in DOMAIN held /\ k = "widthRatio" THEN Spread(held[k], themeCfg[k])
     ELSE themeCfg[k]]

theme(w, v, themeCfg) == [w EXCEPT !.themeObject[v] = mergeTheme(@, themeCfg)]

\* names found on View.prototype: methods of View, of Base and of Object
ViewPrototype ==
  { "data", "scale", "render", "animate", "tooltip", "option", "getOptions",
    "on", "emit", "constructor", "toString" }

\* if (View.prototype[name]) throw new Error(...)
optionThrows(name) == name \in ViewPrototype

\* an option that stores the value before it tests the name
option_storeFirst(w, v, name, opt) ==
  [w EXCEPT !.options[v] = Spread(@, [n \in {name} |-> opt])]

option(w, v, name, opt) ==
  IF optionThrows(name) THEN w
  ELSE [w EXCEPT !.options[v] = Spread(@, [n \in {name} |-> opt])]

(* ------------------------------------------------------------------ *)
(* Queries: getScalesByDim, getXY and the tooltip                          *)
(* ------------------------------------------------------------------ *)
getScalesByDim(w, v, dimType) ==
  LET gs == w.geometries[v]
      ss == [i \in 1..Len(gs) |->
               GeometryScale(gs[i], IF dimType = "x" THEN gs[i].xField ELSE gs[i].yField)]
      found == SelectSeq(ss, LAMBDA r : r # Undefined)
      FirstOf(f) == found[CHOOSE i \in 1..Len(found) :
                            /\ w.scaleHeap[found[i]].field = f
                            /\ \A j \in 1..(i - 1) : w.scaleHeap[found[j]].field # f]
  IN [f \in {w.scaleHeap[found[i]].field : i \in 1..Len(found)} |-> FirstOf(f)]

\* scale.scale(value) and coordinate.convert of the libraries: the position of a value
ScaleScale(sc, value) == << sc.field, value >>
Convert(coord, x, y) == [x |-> x, y |-> y]

\* a datum of the inputs names at most one x field and one y field
getXY(w, v, datum) ==
  LET coord == w.coordinateInstance[v]
      xScales == getScalesByDim(w, v, "x")
      yScales == getScalesByDim(w, v, "y")
      xKeys == DOMAIN datum \cap DOMAIN xScales
      yKeys == DOMAIN datum \cap DOMAIN yScales
  IN IF xKeys = {} \/ yKeys = {} THEN Undefined
     ELSE IF coord = NoCoordinate THEN "TypeError"
     ELSE LET xk == CHOOSE k \in xKeys : TRUE
              yk == CHOOSE k \in yKeys : TRUE
          IN Convert(coord, ScaleScale(w.scaleHeap[xScales[xk]], datum[xk]),
                     ScaleScale(w.scaleHeap[yScales[yk]], datum[yk]))

getController(w, v, name) ==
  SelectSeq(w.controllers[v], LAMBDA co : co.name = name)

\* findDataByPoint of the tooltip utilities: the record drawn at the point
findDataByPoint(point, data) == SelectSeq(data, LAMBDA datum : datum.value = point.x)

\* Tooltip.getTooltipItems: the records of the geometries at the point, without duplicates
RECURSIVE TooltipItemsFrom(_, _, _)
TooltipItemsFrom(gs, point, i) ==
  IF i > Len(gs) THEN << >>
  ELSE findDataByPoint(point, gs[i].data) \o TooltipItemsFrom(gs, point, i + 1)

getTooltipItems(w, v, point) ==
  IF getController(w, v, "tooltip") = << >> THEN << >>
  ELSE Uniq(TooltipItemsFrom(w.geometries[v], point, 1))

\* a showTooltip that shows the tooltip whatever the items are
showTooltip_always(w, v, point) ==
  LET items == getTooltipItems(w, v, point)
      w1 == Emit(w, "tooltip:show", v, 0)
      w2 == IF w.tooltipItems[v] # items THEN Emit(w1, "tooltip:change", v, 0) ELSE w1
  IN [w2 EXCEPT !.tooltipItems[v] = items]

showTooltip(w, v, point) ==
  LET items == getTooltipItems(w, v, point)
  IN IF getController(w, v, "tooltip") = << >> \/ items = << >> THEN w
     ELSE LET w1 == Emit(w, "tooltip:show", v, 0)
              w2 == IF w.tooltipItems[v] # items
                    THEN Emit(w1, "tooltip:change", v, 0) ELSE w1
          IN [w2 EXCEPT !.tooltipItems[v] = items]

(* ------------------------------------------------------------------ *)
(* The tooltip controller                                                  *)
(* ------------------------------------------------------------------ *)
\* how far from the point findDataByPoint still finds a record
Reach == 2

NoCrosshair == [type |-> "none", visible |-> FALSE, at |-> [x |-> 0, y |-> 0]]

\* the controller after render(), with what it reads from its view: the
\* geometries, whether the coordinate is rectangular, the tooltip option
NewTooltip ==
  [ isRect |-> TRUE, geometries |-> << >>, option |-> EmptyDef,
    items |-> << >>, title |-> "", shown |-> FALSE,
    markers |-> << >>, markersVisible |-> FALSE,
    xCrosshair |-> NoCrosshair, yCrosshair |-> NoCrosshair ]

\* deepMix({}, defaultCfg, option), the theme giving no tooltip defaults
getTooltipCfg(t) == Spread(EmptyDef, t.option)

\* cfg[k] is set and true
Truthy(cfg, k) == k \in DOMAIN cfg /\ cfg[k]

\* isArray(x) ? x[x.length - 1] : x, a number being held as an array of one
LastOf(a) == a[Len(a)]

SameItem(a, b) ==
  a.color = b.color /\ a.name = b.name /\ a.value = b.value /\ a.title = b.title

RECURSIVE uniqFrom(_, _, _)
uniqFrom(items, i, uniqItems) ==
  IF i > Len(items) THEN uniqItems
  ELSE uniqFrom(items, i + 1,
         IF \E j \in 1..Len(uniqItems) : SameItem(uniqItems[j], items[i])
         THEN uniqItems ELSE Append(uniqItems, items[i]))

uniq(items) == uniqFrom(items, 1, << >>)

\* findDataByPoint of the tooltip utilities on one array of mapped records:
\* the record nearest to the point along x, when one is within reach
XGap(point, record) ==
  LET d == LastOf(record.mappingData.x) - point.x IN IF d < 0 THEN 0 - d ELSE d

findRecordByPoint(point, data) ==
  LET near == {i \in 1..Len(data) : XGap(point, data[i]) <= Reach}
  IN IF near = {} THEN << >>
     ELSE << data[CHOOSE i \in near :
                    \A j \in near : \/ XGap(point, data[i]) < XGap(point, data[j])
                                    \/ XGap(point, data[i]) = XGap(point, data[j]) /\ i <= j] >>

RECURSIVE RecordsByPoint(_, _, _)
RecordsByPoint(point, dataArray, i) ==
  IF i > Len(dataArray) THEN << >>
  ELSE findRecordByPoint(point, dataArray[i]) \o RecordsByPoint(point, dataArray, i + 1)

\* container.getShape(x, y): the shape drawn at the point, by the array it was
\* drawn from and the place of its record; a shape drawn for a whole array
\* holds the array as its mappingData, the others hold their record
getShape(g, point) ==
  LET hits == {ij \in UNION {{<< i, j >> : j \in 1..Len(g.dataArray[i])} :
                                i \in 1..Len(g.dataArray)} :
                 /\ LastOf(g.dataArray[ij[1]][ij[2]].mappingData.x) = point.x
                 /\ LastOf(g.dataArray[ij[1]][ij[2]].mappingData.y) = point.y}
  IN IF hits = {} THEN << >>
     ELSE LET ij == CHOOSE h \in hits :
                      \A k \in hits : h[1] < k[1] \/ (h[1] = k[1] /\ h[2] <= k[2])
          IN << [ isArray |-> g.shapePerArray,
                  mappingData |-> IF g.shapePerArray THEN g.dataArray[ij[1]]
                                  ELSE << g.dataArray[ij[1]][ij[2]] >> ] >>

\* the items one geometry adds for the point
ItemsOf(g, point, shared) ==
  IF ~(g.visible /\ g.tooltipOption) THEN << >>
  ELSE IF shared THEN RecordsByPoint(point, g.dataArray, 1)
  ELSE LET shape == getShape(g, point)
       IN IF shape = << >> THEN << >>
          ELSE IF shape[1].isArray THEN findRecordByPoint(point, shape[1].mappingData)
          ELSE shape[1].mappingData

RECURSIVE ItemsFrom(_, _, _, _)
ItemsFrom(gs, point, shared, i) ==
  IF i > Len(gs) THEN << >>
  ELSE ItemsOf(gs[i], point, shared) \o ItemsFrom(gs, point, shared, i + 1)

\* item.x, item.y: the place of the item on the canvas
Placed(item) ==
  [ color |-> item.color, name |-> item.name, value |-> item.value, title |-> item.title,
    mappingData |-> item.mappingData,
    x |-> LastOf(item.mappingData.x), y |-> LastOf(item.mappingData.y) ]

\* vec2.distance, squared: the order of two distances is the order of their squares
distance(point, item) ==
  (point.x - item.x) * (point.x - item.x) + (point.y - item.y) * (point.y - item.y)

\* the first of the items that no other item is nearer to the point than
nearestItem(items, point) ==
  items[CHOOSE i \in 1..Len(items) :
          /\ \A j \in 1..Len(items) : distance(point, items[i]) <= distance(point, items[j])
          /\ \A j \in 1..(i - 1) : distance(point, items[j]) > distance(point, items[i])]

\* a getTooltipItems that keeps the items of every title
Tooltip_getTooltipItems_allTitles(t, point) ==
  LET cfg == getTooltipCfg(t)
      shared == ~("shared" \in DOMAIN cfg /\ cfg.shared = FALSE)
      found == uniq(ItemsFrom(t.geometries, point, shared, 1))
  IN [i \in 1..Len(found) |-> Placed(found[i])]

\* Tooltip.getTooltipItems
Tooltip_getTooltipItems(t, point) ==
  LET cfg == getTooltipCfg(t)
      shared == ~("shared" \in DOMAIN cfg /\ cfg.shared = FALSE)
      found == uniq(ItemsFrom(t.geometries, point, shared, 1))
      items == [i \in 1..Len(found) |-> Placed(found[i])]
  IN IF items # << >> /\ \E i \in 1..Len(items) : items[i].title # items[1].title
     THEN SelectSeq(items, LAMBDA item : item.title = nearestItem(items, point).title)
     ELSE items

\* items[0].title || items[0].name
getTitle(items) == IF items[1].title # "" THEN items[1].title ELSE items[1].name

renderTooltipMarkers(t) ==
  [t EXCEPT !.markers = [i \in 1..Len(t.items) |-> [x |-> t.items[i].x, y |-> t.items[i].y]],
            !.markersVisible = TRUE]

\* an existing crosshair is updated, else a line is made; it is shown
renderXCrosshairs(t, point) ==
  [t EXCEPT !.xCrosshair = [type |-> "line", visible |-> TRUE, at |-> point]]

\* a renderYCrosshairs that updates the crosshair it finds
renderYCrosshairs_update(t, point) ==
  LET type == IF t.isRect THEN "line" ELSE "circle"
      stored == t.yCrosshair
  IN [t EXCEPT !.yCrosshair =
        [type |-> IF stored.type # "none" THEN stored.type ELSE type,
         visible |-> TRUE, at |-> point]]

renderYCrosshairs(t, point) ==
  LET type == IF t.isRect THEN "line" ELSE "circle"
      stored == t.yCrosshair
      rebuilt == \/ stored.type = "none"
                 \/ (t.isRect /\ stored.type = "circle")
                 \/ (~t.isRect /\ stored.type = "line")
  IN [t EXCEPT !.yCrosshair =
        [type |-> IF rebuilt THEN type ELSE stored.type, visible |-> TRUE, at |-> point]]

\* get(cfg, ['crosshairs', 'type'], 'x')
crosshairsTypeOf(cfg) ==
  IF "crosshairs" \in DOMAIN cfg /\ "type" \in DOMAIN cfg.crosshairs
  THEN cfg.crosshairs.type ELSE "x"

renderCrosshairs(t, point, cfg) ==
  LET crosshairsType == crosshairsTypeOf(cfg)
  IN CASE crosshairsType = "x" ->
            renderXCrosshairs([t EXCEPT !.yCrosshair.visible = FALSE], point)
       [] crosshairsType = "y" ->
            renderYCrosshairs([t EXCEPT !.xCrosshair.visible = FALSE], point)
       [] crosshairsType = "xy" ->
            renderYCrosshairs(renderXCrosshairs(t, point), point)
       [] OTHER -> t

\* a showTooltip that announces a change whenever it shows the tooltip
Tooltip_showTooltip_alwaysChange(w, point) ==
  LET t == w.tooltipCtl
      items == Tooltip_getTooltipItems(t, point)
  IN IF items = << >> THEN w
     ELSE LET cfg == getTooltipCfg(t)
              title == getTitle(items)
              location == IF Truthy(cfg, "follow") THEN point
                          ELSE [x |-> items[1].x, y |-> items[1].y]
              w1 == Emit(Emit(w, "tooltip:show", 1, 0), "tooltip:change", 1, 0)
              t1 == [t EXCEPT !.shown = TRUE, !.items = items, !.title = title]
              t2 == IF Truthy(cfg, "showTooltipMarkers") THEN renderTooltipMarkers(t1) ELSE t1
              t3 == IF Truthy(cfg, "showCrosshairs")
                    THEN renderCrosshairs(t2, location, cfg) ELSE t2
          IN [w1 EXCEPT !.tooltipCtl = t3]

\* Tooltip.showTooltip, the events going to the view of the controller
Tooltip_showTooltip(w, point) ==
  LET t == w.tooltipCtl
      items == Tooltip_getTooltipItems(t, point)
  IN IF items = << >> THEN w
     ELSE LET cfg == getTooltipCfg(t)
              title == getTitle(items)
              \* getTitle has stored the title in this.title by now
              held == [t EXCEPT !.title = title]
              location == IF Truthy(cfg, "follow") THEN point
                          ELSE [x |-> items[1].x, y |-> items[1].y]
              w1 == Emit(w, "tooltip:show", 1, 0)
              lastItems == held.items
              lastTitle == held.title
              w2 == IF lastTitle # title \/ lastItems # items
                    THEN Emit(w1, "tooltip:change", 1, 0) ELSE w1
              t1 == [held EXCEPT !.shown = TRUE, !.items = items, !.title = title]
              t2 == IF Truthy(cfg, "showTooltipMarkers") THEN renderTooltipMarkers(t1) ELSE t1
              t3 == IF Truthy(cfg, "showCrosshairs")
                    THEN renderCrosshairs(t2, location, cfg) ELSE t2
          IN [w2 EXCEPT !.tooltipCtl = t3]

\* Tooltip.hideTooltip
Tooltip_hideTooltip(w) ==
  Emit([w EXCEPT !.tooltipCtl.markersVisible = FALSE,
                 !.tooltipCtl.xCrosshair.visible = FALSE,
                 !.tooltipCtl.yCrosshair.visible = FALSE,
                 !.tooltipCtl.shown = FALSE], "tooltip:hide", 1, 0)

\* Tooltip.update, as the view is rendered again with the geometries, the
\* coordinate and the tooltip option given: clear(), then the option is read anew
Tooltip_update(w, gs, isRect, tooltipOption) ==
  [w EXCEPT !.tooltipCtl.shown = FALSE,
            !.tooltipCtl.geometries = gs,
            !.tooltipCtl.isRect = isRect,
            !.tooltipCtl.option = tooltipOption]

\* getFacet(type): the facets that are registered
RegisteredFacets == {"rect", "mirror"}

\* facetInstance.destroy()
FacetDestroy(f) == [f EXCEPT !.destroyed = TRUE]

\* new Ctor(this, { ...cfg, type })
NewFacet(type, cfg) == [type |-> type, cfg |-> cfg, destroyed |-> FALSE, facetViews |-> << >>]

facetThrows(type) == type \notin RegisteredFacets

facet(w, v, type, cfg) ==
  LET w1 == IF w.facetInstance[v] # NoFacet
            THEN [FacetClear(w, v) EXCEPT !.facetInstance[v] = FacetDestroy(@)] ELSE w
  IN IF facetThrows(type) THEN w1
     ELSE [w1 EXCEPT !.facetInstance[v] = NewFacet(type, cfg)]

\* getOptions() hands out the options themselves: the caller changes the object at name in place
ChangeInPlace(w, v, name, value) ==
  LET ref == w.options[v][name]
  IN IF ref = Undefined THEN w ELSE [w EXCEPT !.heap[ref] = value]

(* ------------------------------------------------------------------ *)
(* Canvas events                                                           *)
(* ------------------------------------------------------------------ *)
ALL_EVENTS == {"mousedown", "mouseup", "mousemove", "mouseleave", "mousewheel",
               "touchstart", "touchmove", "touchend", "touchcancel",
               "click", "dblclick", "contextmenu"}
PLOT_EVENTS == [MOUSE_ENTER |-> "plot:mouseenter", MOUSE_LEAVE |-> "plot:mouseleave"]

isBetween(value, start, end) ==
  \/ start <= value /\ value <= end
  \/ end <= value /\ value <= start

\* coordinate.invert of a cartesian coordinate: the point as fractions <<n, d>> of the box
Invert(coord, point) ==
  LET fx == << point.x - coord.start.x, coord.end.x - coord.start.x >>
      fy == << point.y - coord.start.y, coord.end.y - coord.start.y >>
  IN IF coord.isTransposed THEN [x |-> fy, y |-> fx] ELSE [x |-> fx, y |-> fy]

\* isBetween(n / d, 0, 1); a division by zero gives NaN or an infinity, which is not between
UnitBetween(f) ==
  /\ f[2] # 0
  /\ IF f[2] > 0 THEN 0 <= f[1] /\ f[1] <= f[2] ELSE f[2] <= f[1] /\ f[1] <= 0

\* an isPointInCoordinate that tests the x component alone
isPointInCoordinate_xOnly(coord, point) ==
  IF coord = NoCoordinate THEN FALSE
  ELSE IF coord.type = "theta"
       THEN isBetween(point.x, coord.start.x, coord.end.x)
       ELSE UnitBetween(Invert(coord, point).x)

isPointInCoordinate(coord, point) ==
  IF coord = NoCoordinate THEN FALSE
  ELSE IF coord.type = "theta"
       THEN /\ isBetween(point.x, coord.start.x, coord.end.x)
            /\ isBetween(point.y, coord.start.y, coord.end.y)
       ELSE LET invertPoint == Invert(coord, point)
            IN UnitBetween(invertPoint.x) /\ UnitBetween(invertPoint.y)

isPointInPlot(w, v, point) == isPointInCoordinate(w.coordinateInstance[v], point)

\* a doPlotEvent that forwards plot:<type> wherever the point is
doPlotEvent_anywhere(w, v, type, point) ==
  IF type \notin ALL_EVENTS THEN w
  ELSE
    LET currentInPlot == isPointInPlot(w, v, point)
        w1 == Emit(w, "plot:" \o type, v, 0)
        w2 == IF currentInPlot /\ type = "mouseleave"
              THEN [w1 EXCEPT !.isPreMouseInPlot[v] = FALSE] ELSE w1
    IN IF type = "mousemove"
       THEN LET w3 == IF w2.isPreMouseInPlot[v] /\ ~currentInPlot
                      THEN Emit(w2, PLOT_EVENTS.MOUSE_LEAVE, v, 0)
                      ELSE IF ~w2.isPreMouseInPlot[v] /\ currentInPlot
                      THEN Emit(w2, PLOT_EVENTS.MOUSE_ENTER, v, 0)
                      ELSE w2
            IN [w3 EXCEPT !.isPreMouseInPlot[v] = currentInPlot]
       ELSE IF type = "mouseleave" /\ w2.isPreMouseInPlot[v]
       THEN [Emit(w2, PLOT_EVENTS.MOUSE_LEAVE, v, 0) EXCEPT !.isPreMouseInPlot[v] = FALSE]
       ELSE w2

doPlotEvent(w, v, type, point) ==
  IF type \notin ALL_EVENTS THEN w
  ELSE
    LET currentInPlot == isPointInPlot(w, v, point)
        w1 == IF currentInPlot THEN Emit(w, "plot:" \o type, v, 0) ELSE w
        w2 == IF currentInPlot /\ type = "mouseleave"
              THEN [w1 EXCEPT !.isPreMouseInPlot[v] = FALSE] ELSE w1
    IN IF type = "mousemove"
       THEN LET w3 == IF w2.isPreMouseInPlot[v] /\ ~currentInPlot
                      THEN Emit(w2, PLOT_EVENTS.MOUSE_LEAVE, v, 0)
                      ELSE IF ~w2.isPreMouseInPlot[v] /\ currentInPlot
                      THEN Emit(w2, PLOT_EVENTS.MOUSE_ENTER, v, 0)
                      ELSE w2
            IN [w3 EXCEPT !.isPreMouseInPlot[v] = currentInPlot]
       ELSE IF type = "mouseleave" /\ w2.isPreMouseInPlot[v]
       THEN [Emit(w2, PLOT_EVENTS.MOUSE_LEAVE, v, 0) EXCEPT !.isPreMouseInPlot[v] = FALSE]
       ELSE w2

\* the name of an event: `type`, or `delegate:type` for a delegated one
NameOf(evt) == IF evt.delegate = "" THEN evt.type ELSE evt.delegate \o ":" \o evt.type

\* each(inhertNames, ...): an inherited name is emitted when the view has a listener for it
RECURSIVE emitInherited(_, _, _, _)
emitInherited(w, v, evt, i) ==
  IF i > Len(evt.inheritNames) THEN w
  ELSE LET eventName == evt.inheritNames[i] \o ":" \o evt.type
           w1 == IF eventName \in w.events[v] THEN Emit(w, eventName, v, 0) ELSE w
       IN emitInherited(w1, v, evt, i + 1)

\* an onDelegateEvents that emits the inherited names in place of the composite one
onDelegateEvents_replacing(w, v, evt) ==
  IF evt.delegate = "" THEN w
  ELSE IF evt.delegateObject /\ evt.inheritNames # << >>
       THEN emitInherited(w, v, evt, 1)
       ELSE Emit(w, NameOf(evt), v, 0)

onDelegateEvents(w, v, evt) ==
  IF evt.delegate = "" THEN w
  ELSE LET w1 == Emit(w, NameOf(evt), v, 0)
       IN IF evt.delegateObject THEN emitInherited(w1, v, evt, 1) ELSE w1

\* Base.on: the view has a listener for the name from now on
on(w, v, name) == [w EXCEPT !.events[v] = @ \cup {name}]

\* an event of the canvas: its name is `type` or `delegate:type`
onCanvasEvent(w, v, evt) ==
  IF evt.delegate = ""
  THEN Emit(doPlotEvent(w, v, evt.type, evt.point), evt.type, v, 0)
  ELSE w

\* canvas.emit: every view of the tree listens to the one canvas, in the order of construction
RECURSIVE CanvasEmit(_, _, _)
CanvasEmit(w, evt, v) ==
  IF v > Len(w.parent) THEN w ELSE CanvasEmit(onCanvasEvent(w, v, evt), evt, v + 1)

(* ------------------------------------------------------------------ *)
(* ScaleDef                                                                *)
(* ------------------------------------------------------------------ *)
ContinuousTypes == {"linear", "log", "pow", "sqrt", "time"}

\* the transform functions of the options, by name
Transform(name, x) ==
  CASE name = "id" -> x
    [] name = "toDate" -> x          \* typeof d === 'string' ? new Date(d) : d, on numbers
    [] name = "double" -> 2 * x
MapSeq(name, s) == [i \in 1..Len(s) |-> Transform(name, s[i])]

\* createScaleByType: a scale of the type with the options of the library
createScaleByType(type) ==
  [ type |-> type,
    options |-> [domain |-> IF type \in ContinuousTypes \cup {"identity"}
                            THEN << 0, 1 >> ELSE << >>] ]

\* scale.update(options) of the library: the options given replace those it has
ScaleUpdate(sc, o) == [sc EXCEPT !.options = Spread(@, o)]

\* scale.getTicks() of the library: the ticks given, or else the two ends of the domain
ScaleGetTicks(sc) ==
  LET o == sc.options
  IN IF "tickMethod" \in DOMAIN o /\ o.tickMethod[1] = "ticks" THEN o.tickMethod[2]
     ELSE IF o.domain = << >> THEN << >>
     ELSE << o.domain[1], o.domain[Len(o.domain)] >>

\* scale.map(x) of the library: the position of x in the domain
ScaleMap(sc, x) == << x, sc.options.domain >>

belongTo(sd, types) == "type" \in DOMAIN sd.options /\ sd.options.type \in types

isContinuous(sd) == belongTo(sd, {"linear", "log", "pow", "sqrt", "time"})

\* a classification that takes time for a category type as well
isCategory_time(sd) == belongTo(sd, {"ordinal", "band", "point", "cat", "category", "timeCat", "time"})

isCategory(sd) == belongTo(sd, {"ordinal", "band", "point", "cat", "category", "timeCat"})

isIdentity(sd) == belongTo(sd, {"identity"})

getOptions(sd) == Spread(sd.scale.options, sd.options)

getOption(sd, k) == getOptions(sd)[k]

updateScaleType(sd, u) ==
  IF "type" \notin DOMAIN u THEN sd
  ELSE IF "type" \notin DOMAIN sd.options \/ u.type # sd.options.type
  THEN [sd EXCEPT !.scale = createScaleByType(u.type), !.created = @ + 1]
  ELSE sd

getDefaultOptions(sd) ==
  IF belongTo(sd, {"time"}) THEN [transform |-> "toDate", formatter |-> "time"]
  ELSE IF belongTo(sd, {"timeCat"})
  THEN [transform |-> "toDate", formatter |-> "date", compare |-> "date"]
  ELSE [transform |-> "id"]

updateOptions(sd, u) ==
  LET sd1 == [sd EXCEPT !.options = Spread(@, u)]
  IN [sd1 EXCEPT !.options = Spread(getDefaultOptions(sd1), @)]

\* transformedDomain[0] = x: an empty array gets its first entry
SetFirst(d, x) == IF d = << >> THEN << x >> ELSE [d EXCEPT ![1] = x]

\* transformedDomain[last] = x with last = length - 1 taken beforehand: no entry when last is -1
SetLast(d, last, x) == IF last < 1 THEN d ELSE [d EXCEPT ![last] = x]

generateDomain(sd, u) ==
  LET transform == getOptions(sd).transform
      transformedDomain == IF "domain" \in DOMAIN u THEN MapSeq(transform, u.domain)
                           ELSE getOption(sd, "domain")
      last == Len(transformedDomain)
      d1 == IF "min" \in DOMAIN u /\ u.min # 0
            THEN SetFirst(transformedDomain, Transform(transform, u.min))
            ELSE transformedDomain
  IN IF "max" \in DOMAIN u /\ u.max # 0
     THEN SetLast(d1, last, Transform(transform, u.max))
     ELSE d1

\* the tick methods of nameTickMethod, by the names they are registered with
nameTickMethod ==
  [ n \in {"d3-ticks", "wilkinson-extended", "r-pretty", "strick-count", "d3-log", "d3-time"} |->
      CASE n = "d3-ticks" -> << "d3Ticks" >>
        [] n = "wilkinson-extended" -> << "wilkinsonExtended" >>
        [] n = "r-pretty" -> << "rPretty" >>
        [] n = "strick-count" -> << "strickCount" >>
        [] n = "d3-log" -> << "d3Log" >>
        [] n = "d3-time" -> << "d3Time" >> ]

\* what an object literal inherits from Object.prototype
ObjectPrototype ==
  { "constructor", "toString", "toLocaleString", "valueOf", "hasOwnProperty",
    "isPrototypeOf", "propertyIsEnumerable", "__proto__" }

\* typeTickMethod[type] || d3Ticks
typeTickMethod(type) ==
  IF type = "log" THEN << "d3Log" >>
  ELSE IF type = "time" THEN << "d3Time" >>
  ELSE IF type \in ObjectPrototype THEN << "Object.prototype", type >>
  ELSE << "d3Ticks" >>

\* a lookup of the name among the registered methods only
generateTickMethod_ownNames(sd) ==
  LET o == sd.options
  IN IF "ticks" \in DOMAIN o THEN << "ticks", o.ticks >>
     ELSE IF "tickMethod" \in DOMAIN o /\ o.tickMethod.kind = "function"
     THEN << "function", o.tickMethod.name >>
     ELSE IF "tickMethod" \in DOMAIN o /\ o.tickMethod.kind = "string"
             /\ o.tickMethod.name \in DOMAIN nameTickMethod
     THEN nameTickMethod[o.tickMethod.name]
     ELSE typeTickMethod(o.type)

\* a tickMethod option is [kind |-> "function" or "string", name |-> ...];
\* nameTickMethod[tickMethod] finds what the object inherits as well
generateTickMethod(sd) ==
  LET o == sd.options
  IN IF "ticks" \in DOMAIN o THEN << "ticks", o.ticks >>
     ELSE IF "tickMethod" \in DOMAIN o /\ o.tickMethod.kind = "function"
     THEN << "function", o.tickMethod.name >>
     ELSE IF "tickMethod" \in DOMAIN o /\ o.tickMethod.kind = "string"
             /\ o.tickMethod.name \in DOMAIN nameTickMethod
     THEN nameTickMethod[o.tickMethod.name]
     ELSE IF "tickMethod" \in DOMAIN o /\ o.tickMethod.kind = "string"
             /\ o.tickMethod.name \in ObjectPrototype
     THEN << "Object.prototype", o.tickMethod.name >>
     ELSE typeTickMethod(o.type)

\* the array of this.options.domain, when it is the one resolved, is changed in place
updateScaleOptions(sd, u) ==
  LET d == generateDomain(sd, u)
      inPlace == "domain" \notin DOMAIN u /\ "domain" \in DOMAIN sd.options
      sd1 == IF inPlace THEN [sd EXCEPT !.options = Spread(@, [domain |-> d])] ELSE sd
      o == Spread(sd1.options, [domain |-> d, tickMethod |-> generateTickMethod(sd1)])
  IN [sd1 EXCEPT !.scale = ScaleUpdate(@, o)]

updateExtent(sd) ==
  IF ~isContinuous(sd) THEN sd
  ELSE LET domain == getOption(sd, "domain")
       IN IF domain = << >>
          THEN [sd EXCEPT !.options = [k \in (DOMAIN @) \ {"min", "max"} |-> @[k]]]
          ELSE [sd EXCEPT !.options = Spread(@, [max |-> domain[Len(domain)], min |-> domain[1]])]

calculateTickValues(sd) ==
  IF sd.scale.type \in ContinuousTypes THEN ScaleGetTicks(sd.scale) ELSE sd.scale.options.domain

updateTicks(sd) ==
  [sd EXCEPT !.tickValues = MapSeq(getOptions(sd).transform, calculateTickValues(sd))]

update(sd, u) ==
  updateTicks(updateExtent(updateScaleOptions(updateOptions(updateScaleType(sd, u), u), u)))

\* new ScaleDef(options)
NewScaleDef(o) ==
  update([ options |-> EmptyDef, scale |-> [type |-> "", options |-> EmptyDef],
           tickValues |-> << >>, created |-> 0 ],
         Spread([type |-> "identity"], o))

getText(sd, value) ==
  IF "formatter" \in DOMAIN sd.options THEN << sd.options.formatter, value >>
  ELSE << "string", value >>

getTicks(sd) ==
  [ i \in 1..Len(sd.tickValues) |->
      [ text |-> getText(sd, sd.tickValues[i]),
        tickValue |-> sd.tickValues[i],
        value |-> ScaleMap(sd.scale, Transform(sd.options.transform, sd.tickValues[i])) ] ]

(* ------------------------------------------------------------------ *)
(* Initial states: a root view constructed from its options                *)
(* ------------------------------------------------------------------ *)
\* the arrays the caller holds and passes to data() / changeData()
ChangedData == 2
OwnData == 3
RootCoordinate == 4

SyncYear == [year |-> [sync |-> TRUE]]
LiveInteractions == [n \in InteractionNames |-> [state |-> "live", destroys |-> 0]]

\* the value of an option object and the reference it gets when it is the n-th allocated
OptRef(val, n) == IF val = << >> THEN Undefined ELSE n
OptHeap(h, val) == IF val = << >> THEN h ELSE Append(h, val)

InitRootWith(dataRef, coordinateOption, scalesVal, tooltipVal, legendsVal, inter, viewsVal) ==
  LET h0 == << DataA, DataB, << >>, coordinateOption >>
      h1 == OptHeap(h0, scalesVal)
      h2 == OptHeap(h1, tooltipVal)
      h3 == OptHeap(h2, legendsVal)
      opts == [ data |-> dataRef,
                scales |-> OptRef(scalesVal, Len(h1)),
                axes |-> Undefined,
                coordinate |-> RootCoordinate,
                tooltip |-> OptRef(tooltipVal, Len(h2)),
                legends |-> OptRef(legendsVal, Len(h3)),
                animate |-> TRUE,
                filters |-> NoFilters ]
      empty == [ parent |-> << >>, views |-> << >>, geometries |-> << >>,
                 controllers |-> << >>, interactions |-> << >>, region |-> << >>,
                 viewBBox |-> << >>, coordinateBBox |-> << >>, options |-> << >>,
                 coordinateController |-> << >>, filteredData |-> << >>,
                 scalePool |-> << >>, coordinateInstance |-> << >>,
                 isPreMouseInPlot |-> << >>, destroyed |-> << >>, groups |-> << >>,
                 events |-> << >>, facetInstance |-> << >>,
                 tooltipItems |-> << >>, themeObject |-> << >>,
                 scaleDefInst |-> NewScaleDef(EmptyDef),
                 tooltipCtl |-> NewTooltip,
                 heap |-> h3, scaleHeap |-> << >>, log |-> << >> ]
      declared == IF viewsVal = << >> THEN EmptyDef ELSE [views |-> viewsVal]
      w == NewView(empty, 0, FullRegion, Spread(opts, declared))
  IN /\ Is([w EXCEPT !.interactions[1] = inter])
     /\ lastOp = [op |-> "new", view |-> 1]
     /\ callCount = 0

InitRoot(dataRef, coordinateOption, scalesVal, tooltipVal, legendsVal, inter) ==
  InitRootWith(dataRef, coordinateOption, scalesVal, tooltipVal, legendsVal, inter, << >>)

Init ==
  InitRoot(1, DefaultCoordinateOption, << >>, << >>, << >>, LiveInteractions)

(* ------------------------------------------------------------------ *)
(* Operations                                                              *)
(* ------------------------------------------------------------------ *)
Start == [World EXCEPT !.log = << >>]

\* scale instances that nothing refers to any more are garbage
Referenced(w) ==
  UNION {{w.scalePool[v][k] : k \in DOMAIN w.scalePool[v]} : v \in 1..Len(w.parent)}
  \cup UNION {UNION {{w.geometries[v][i].scales[f] : f \in DOMAIN w.geometries[v][i].scales}
                     : i \in 1..Len(w.geometries[v])} : v \in 1..Len(w.parent)}
Collect(w) == IF Referenced(w) \subseteq {Undefined} THEN [w EXCEPT !.scaleHeap = << >>] ELSE w

GeometryCount == Len(Flatten(geometries))

CreateView(p, reg) ==
  /\ Len(parent) < MaxViews
  /\ Len(heap) + 5 <= MaxRefs
  /\ ~destroyed[p]
  /\ \E w \in {createView(Start, p, reg)} : Becomes(w)
  /\ lastOp' = [op |-> "createView", view |-> p]
  /\ UNCHANGED callCount

AddGeometry(v, g) ==
  /\ GeometryCount < MaxGeometries
  /\ ~destroyed[v]
  /\ \E w \in {addGeometry(Start, v, g)} : Becomes(w)
  /\ lastOp' = [op |-> "addGeometry", view |-> v]
  /\ UNCHANGED callCount

Render(v, isUpdate) ==
  /\ ~destroyed[v]
  /\ \E w \in {render(Start, v, isUpdate)} :
       /\ Len(w.scaleHeap) <= MaxScales
       /\ Len(w.parent) <= MaxViews + MaxFacetViews
       /\ Becomes(w)
  /\ lastOp' = [op |-> "render", view |-> v, isUpdate |-> isUpdate,
                afterClear |-> (lastOp.op = "clear" /\ lastOp.view = v),
                afterRemoved |-> (lastOp.op = "filter" /\ lastOp.view = v /\ lastOp.removed)]
  /\ UNCHANGED callCount

ChangeData(v, ref) ==
  /\ ~destroyed[v]
  /\ \E w \in {changeData(Start, v, ref)} :
       /\ Len(w.scaleHeap) <= MaxScales
       /\ Becomes(w)
  /\ lastOp' = [op |-> "changeData", view |-> v, ref |-> ref]
  /\ UNCHANGED callCount

\* a key the callers of createScale agree on
SharedKey == << 0, "shared" >>

\* createScale called on a view with an explicit key
CreateScale(v, field, key) ==
  /\ ~destroyed[v]
  /\ \E w \in {createScale(Start, v, field, filteredData[v], EmptyDef, key, 0)} :
       /\ Len(w.scaleHeap) <= MaxScales
       /\ Becomes(w)
  /\ lastOp' = [op |-> "createScale", view |-> v, field |-> field, key |-> key]
  /\ UNCHANGED callCount

\* createScale called on a view with a definition of the caller
CreateScaleWith(v, field, scaleDef) ==
  /\ ~destroyed[v]
  /\ \E w \in {createScale(Start, v, field, filteredData[v], scaleDef, NoKey, 0)} :
       /\ Len(w.scaleHeap) <= MaxScales
       /\ Becomes(w)
       /\ lastOp' = [op |-> "createScale", view |-> v, field |-> field, key |-> NoKey,
                     scaleDef |-> scaleDef,
                     existed |-> (getScaleByField(World, v, field, NoKey) # Undefined),
                     returned |-> getScaleByField(w, v, field, NoKey)]
  /\ UNCHANGED callCount

Clear(v) ==
  /\ ~destroyed[v]
  /\ \E w \in {Collect(clear(Start, v))} : Becomes(w)
  /\ lastOp' = [op |-> "clear", view |-> v,
                rendered |-> (coordinateInstance[v] # NoCoordinate)]
  /\ UNCHANGED callCount

Destroy(v) ==
  /\ ~destroyed[v]
  /\ \E w \in {Collect(destroy(Start, v))} : Becomes(w)
  /\ lastOp' = [op |-> "destroy", view |-> v]
  /\ UNCHANGED callCount

Interaction(v, name, created) ==
  /\ callCount < MaxCalls
  /\ \E w \in {interaction(Start, v, name, created)} : Becomes(w)
  /\ lastOp' = [op |-> "interaction", view |-> v, name |-> name, created |-> created]
  /\ callCount' = callCount + 1

RemoveInteraction(v, name) ==
  /\ callCount < MaxCalls
  /\ \E w \in {removeInteraction(Start, v, name)} : Becomes(w)
  /\ lastOp' = [op |-> "removeInteraction", view |-> v, name |-> name]
  /\ callCount' = callCount + 1

\* the option setters, and the caller changing in place what getOptions() hands out
Scale(v, field, scaleOption) ==
  /\ callCount < MaxCalls
  /\ Len(heap) < MaxRefs
  /\ \E w \in {scale(Start, v, field, scaleOption)} : Becomes(w)
  /\ lastOp' = [op |-> "scale", view |-> v]
  /\ callCount' = callCount + 1

Legend(v, field, legendOption) ==
  /\ callCount < MaxCalls
  /\ Len(heap) < MaxRefs
  /\ \E w \in {legend(Start, v, field, legendOption)} : Becomes(w)
  /\ lastOp' = [op |-> "legend", view |-> v]
  /\ callCount' = callCount + 1

Coordinate(v, coordinateOption) ==
  /\ callCount < MaxCalls
  /\ \E w \in {coordinate(Start, v, coordinateOption)} : Becomes(w)
  /\ lastOp' = [op |-> "coordinate", view |-> v]
  /\ callCount' = callCount + 1

Theme(v, themeCfg) ==
  /\ callCount < MaxCalls
  /\ ~destroyed[v]
  /\ \E w \in {theme(Start, v, themeCfg)} : Becomes(w)
  /\ lastOp' = [op |-> "theme", view |-> v]
  /\ callCount' = callCount + 1

Animate(v, status) ==
  /\ callCount < MaxCalls
  /\ \E w \in {animate(Start, v, status)} : Becomes(w)
  /\ lastOp' = [op |-> "animate", view |-> v]
  /\ callCount' = callCount + 1

\* view.option(name, opt): an Error thrown, or the view returned
Option(v, name, opt) ==
  /\ \E w \in {option(Start, v, name, opt)} : Becomes(w)
  /\ lastOp' = [ op |-> "option", view |-> v, name |-> name, opt |-> opt,
                 threw |-> optionThrows(name),
                 returned |-> IF optionThrows(name) THEN Undefined ELSE v ]
  /\ UNCHANGED callCount

\* view.facet(type, cfg): an Error thrown, or the view returned
Facet(v, type, cfg) ==
  /\ callCount < MaxCalls
  /\ ~destroyed[v]
  /\ \E w \in {facet(Start, v, type, cfg)} : Becomes(w)
  /\ lastOp' = [ op |-> "facet", view |-> v, type |-> type, threw |-> facetThrows(type) ]
  /\ callCount' = callCount + 1

ShowTooltip(v, point) ==
  /\ callCount < MaxCalls
  /\ \E w \in {showTooltip(Start, v, point)} : Becomes(w)
  /\ lastOp' = [op |-> "showTooltip", view |-> v, point |-> point]
  /\ callCount' = callCount + 1

\* tooltipController.showTooltip(point)
TooltipShow(point) ==
  /\ callCount < MaxCalls
  /\ \E w \in {Tooltip_showTooltip(Start, point)} : Becomes(w)
  /\ lastOp' = [op |-> "tooltipShow", point |-> point,
                items |-> Tooltip_getTooltipItems(tooltipCtl, point),
                last |-> tooltipCtl.items, stored |-> tooltipCtl.yCrosshair.type,
                after |-> lastOp.op]
  /\ callCount' = callCount + 1

\* tooltipController.hideTooltip()
TooltipHide ==
  /\ \E w \in {Tooltip_hideTooltip(Start)} : Becomes(w)
  /\ lastOp' = [op |-> "tooltipHide"]
  /\ UNCHANGED callCount

\* the view is rendered again, its geometries, coordinate or tooltip option changed
TooltipUpdate(gs, isRect, tooltipOption) ==
  /\ \E w \in {Tooltip_update(Start, gs, isRect, tooltipOption)} : Becomes(w)
  /\ lastOp' = [op |-> "tooltipUpdate"]
  /\ UNCHANGED callCount

Data(v, ref) ==
  /\ callCount < MaxCalls
  /\ \E w \in {setData(Start, v, ref)} : Becomes(w)
  /\ lastOp' = [op |-> "data", view |-> v]
  /\ callCount' = callCount + 1

\* view.getOptions().tooltip.shared = false
ChangeTooltip(v, value) ==
  /\ callCount < MaxCalls
  /\ \E w \in {ChangeInPlace(Start, v, "tooltip", value)} : Becomes(w)
  /\ lastOp' = [op |-> "changeTooltip", view |-> v]
  /\ callCount' = callCount + 1

\* view.getOptions().data.push(row)
PushData(v, row) ==
  /\ callCount < MaxCalls
  /\ \E w \in {ChangeInPlace(Start, v, "data", Append(DataOf(World, v), row))} : Becomes(w)
  /\ lastOp' = [op |-> "pushData", view |-> v]
  /\ callCount' = callCount + 1

CanvasEvent(evt) ==
  /\ callCount < MaxCalls
  /\ \E w \in {CanvasEmit(Start, evt, 1)} : Becomes(w)
  /\ lastOp' = [op |-> "canvasEvent", evt |-> evt]
  /\ callCount' = callCount + 1

\* the rows the geometries of the view were given are fewer than its data
RowsHidden(v) ==
  \E i \in 1..Len(geometries[v]) : Len(geometries[v][i].data) < Len(DataOf(World, v))

Filter(v, field, condition) ==
  /\ callCount < MaxCalls
  /\ ~destroyed[v]
  /\ \E w \in {filter(Start, v, field, condition)} : Becomes(w)
  /\ lastOp' = [op |-> "filter", view |-> v, field |-> field, condition |-> condition,
                removed |-> /\ condition = "null"
                            /\ DOMAIN options[v].filters = {field}
                            /\ RowsHidden(v)]
  /\ callCount' = callCount + 1

\* scaleDef.update(updateOptions)
Update(u) ==
  /\ callCount < MaxCalls
  /\ \E w \in {[Start EXCEPT !.scaleDefInst = update(@, u)]} : Becomes(w)
  /\ lastOp' = [op |-> "update", updateOptions |-> u]
  /\ callCount' = callCount + 1

\* scaleDefInst = new ScaleDef(options)
Construct(o) ==
  /\ \E w \in {[Start EXCEPT !.scaleDefInst = NewScaleDef(o)]} : Becomes(w)
  /\ lastOp' = [op |-> "construct", updateOptions |-> o]
  /\ UNCHANGED callCount

On(v, name) ==
  /\ \E w \in {on(Start, v, name)} : Becomes(w)
  /\ lastOp' = [op |-> "on", view |-> v, name |-> name]
  /\ UNCHANGED callCount

\* an event of a shape bubbles up to the layer groups of the view
LayerEvent(v, evt) ==
  /\ groups[v] = "attached"
  /\ \E w \in {onDelegateEvents(Start, v, evt)} : Becomes(w)
  /\ lastOp' = [op |-> "layerEvent", view |-> v, evt |-> evt]
  /\ UNCHANGED callCount

\* rendering and data changes on a growing view tree
Next ==
  \/ \E p \in ViewIds : CreateView(p, LeftRegion)
  \/ \E v \in ViewIds, g \in GeometryOptions : AddGeometry(v, g)
  \/ \E v \in ViewIds, isUpdate \in BOOLEAN : Render(v, isUpdate)
  \/ \E v \in ViewIds : ChangeData(v, ChangedData)
  \/ \E v \in ViewIds : CreateScale(v, "year", SharedKey)

Spec == Init /\ [][Next]_vars

\* the lifecycle of the views of a tree: render, clear, destroy
NextLife ==
  \/ \E p \in ViewIds : CreateView(p, LeftRegion)
  \/ \E v \in ViewIds, g \in GeometryOptions : AddGeometry(v, g)
  \/ \E v \in ViewIds : Render(v, FALSE)
  \/ \E v \in ViewIds : Clear(v)
  \/ \E v \in ViewIds : Destroy(v)

SpecLife == Init /\ [][NextLife]_vars

\* a root view constructed with scales, tooltip and legends options, and the
\* options of the views of its tree changed afterwards
YearMin == [min |-> 0]
LegendTop == [position |-> "top"]
TooltipOff == [shared |-> FALSE]
ThetaOption == [type |-> "theta", transposed |-> FALSE, fullCircle |-> TRUE]

InitOptions ==
  InitRoot(1, DefaultCoordinateOption, SyncYear, [shared |-> TRUE],
           [year |-> [position |-> "right"]], LiveInteractions)

NextOptions ==
  \/ \E p \in ViewIds : CreateView(p, LeftRegion)
  \/ \E v \in ViewIds : Scale(v, "year", YearMin)
  \/ \E v \in ViewIds : Legend(v, "year", LegendTop)
  \/ \E v \in ViewIds : Coordinate(v, ThetaOption)
  \/ \E v \in ViewIds : Animate(v, FALSE)
  \/ \E v \in ViewIds : Data(v, ChangedData)
  \/ \E v \in ViewIds : ChangeTooltip(v, TooltipOff)
  \/ \E v \in ViewIds : PushData(v, Row94)

SpecOptions == InitOptions /\ [][NextOptions]_vars

\* scales created, by render, changeData and createScale, and cleared in a tree of views
NextPool ==
  \/ CreateView(1, LeftRegion)
  \/ AddGeometry(Len(parent), Interval)
  \/ Render(1, FALSE)
  \/ ChangeData(1, ChangedData)
  \/ CreateScale(Len(parent), "year", NoKey)
  \/ \E v \in {1, Len(parent)} : Clear(v)

SpecPool == Init /\ [][NextPool]_vars

\* scale definitions set on the views of a tree and handed to createScale
LevelDefs == { [min |-> 5, max |-> 9], [max |-> 3, tickCount |-> 4] }
CallerDefs == { EmptyDef, [min |-> 1] }

NextMerge ==
  \/ CreateView(Len(parent), LeftRegion)
  \/ \E v \in {1, Len(parent)}, def \in LevelDefs : Scale(v, "year", def)
  \/ \E def \in CallerDefs : CreateScaleWith(Len(parent), "year", def)

SpecMerge == Init /\ [][NextMerge]_vars

\* views created on regions of their parents, and rendered
Regions ==
  { LeftRegion, FullRegion,
    [start |-> [x |-> 1, y |-> 1], end |-> [x |-> 2, y |-> 2]],
    [start |-> [x |-> 1, y |-> 0], end |-> [x |-> 1, y |-> 2]] }

NextLayout ==
  \/ \E p \in ViewIds, reg \in Regions : CreateView(p, reg)
  \/ \E v \in ViewIds, isUpdate \in BOOLEAN : Render(v, isUpdate)
  \/ \E v \in ViewIds : Clear(v)

SpecLayout == Init /\ [][NextLayout]_vars

InitViews ==
  \E viewsVal \in {<< >>, << LeftRegion >>} :
    InitRootWith(1, DefaultCoordinateOption, << >>, << >>, << >>, LiveInteractions, viewsVal)

SpecViews == InitViews /\ [][NextLife]_vars

\* a tree of views with and without geometries, queried for its tooltip
TooltipPoints == {[x |-> 5, y |-> 5], [x |-> 13, y |-> 10], [x |-> 1, y |-> 1]}

InitTooltip ==
  \E dataRef \in {1, 2} :
    InitRoot(dataRef, DefaultCoordinateOption, << >>, << >>, << >>, LiveInteractions)

NextTooltip ==
  \/ CreateView(1, LeftRegion)
  \/ \E v \in ViewIds : AddGeometry(v, Interval)
  \/ Render(1, FALSE)
  \/ \E v \in ViewIds, point \in TooltipPoints : ShowTooltip(v, point)

SpecTooltip == InitTooltip /\ [][NextTooltip]_vars

\* facets declared on the views of a tree between its renders
FacetTypes == {"rect", "mirror", "matrix"}
FacetCfgs == {[fields |-> << "year" >>]}

NextFacet ==
  \/ \E p \in ViewIds : CreateView(p, LeftRegion)
  \/ \E v \in ViewIds, type \in FacetTypes, cfg \in FacetCfgs : Facet(v, type, cfg)
  \/ Render(1, FALSE)

SpecFacet == Init /\ [][NextFacet]_vars

\* options stored by name on the views of a tree
OptionChoices == {7, 8}
OptionNames == {"data", "on", "constructor", "custom", "views"}

NextOption ==
  \/ \E p \in ViewIds : CreateView(p, LeftRegion)
  \/ \E v \in ViewIds, name \in OptionNames, opt \in OptionChoices : Option(v, name, opt)

SpecOption == Init /\ [][NextOption]_vars

\* canvas events delivered to the views of a tree, rendered or not
CanvasEvents ==
  { [delegate |-> d, type |-> t, point |-> p] :
      d \in {""}, t \in {"mousemove", "mouseleave", "click", "mouseenter"},
      p \in {[x |-> 5, y |-> 5], [x |-> 18, y |-> 10], [x |-> 1, y |-> 1]} }
  \cup {[delegate |-> "interval", type |-> "click", point |-> [x |-> 5, y |-> 5]]}

InitEvents ==
  \E coordinateOption \in {DefaultCoordinateOption, ThetaOption} :
    InitRoot(1, coordinateOption, << >>, << >>, << >>, LiveInteractions)

NextEvents ==
  \/ \E p \in ViewIds : CreateView(p, LeftRegion)
  \/ \E v \in ViewIds : Render(v, FALSE)
  \/ \E v \in ViewIds : Clear(v)
  \/ \E evt \in CanvasEvents : CanvasEvent(evt)

SpecEvents == InitEvents /\ [][NextEvents]_vars

\* the ranges of the scales of a chart under the coordinates and scale options it
\* can be constructed with, as its data grows, is replaced and is emptied
ThetaTransposed == [type |-> "theta", transposed |-> TRUE, fullCircle |-> TRUE]
PolarPart == [type |-> "polar", transposed |-> FALSE, fullCircle |-> FALSE]
YearRange == [year |-> [range |-> << Frac(1, 4), Frac(3, 4) >>]]
YearCat == [year |-> [type |-> "cat"]]
MoreRows == << [year |-> "1993", value |-> 5], Row94, [year |-> "1995", value |-> 21] >>

\* the first of the further rows whose year the data of the view does not have yet
NextRows(v) ==
  LET years == {DataOf(World, v)[i].year : i \in 1..Len(DataOf(World, v))}
      fresh == SelectSeq(MoreRows, LAMBDA r : r.year \notin years)
  IN IF fresh = << >> THEN {} ELSE {fresh[1]}

InitRange ==
  \E coordinateOption \in {DefaultCoordinateOption, ThetaOption, ThetaTransposed, PolarPart},
     scalesVal \in {<< >>, YearRange, YearCat} :
    InitRoot(1, coordinateOption, scalesVal, << >>, << >>, LiveInteractions)

NextRange ==
  \/ \E g \in GeometryOptions : AddGeometry(1, g)
  \/ \E isUpdate \in BOOLEAN : Render(1, isUpdate)
  \/ \E row \in NextRows(1) : PushData(1, row)
  \/ \E ref \in {ChangedData, OwnData} : Data(1, ref)

SpecRange == InitRange /\ [][NextRange]_vars

\* a ScaleDef constructed and updated with the options of the callers
ScaleTypes == ContinuousTypes \cup {"ordinal", "band", "point", "cat", "category", "timeCat"}
              \cup {"identity", "quantile"}

UpdateChoices ==
  { [type |-> t] : t \in ScaleTypes }
  \cup { EmptyDef,
         [domain |-> << 5, 10 >>],
         [domain |-> << 1, 2 >>, transform |-> "double"],
         [transform |-> "double"],
         [ticks |-> << 2, 4 >>],
         [min |-> 3],
         [max |-> 9],
         [min |-> 0, max |-> 9],
         [type |-> "linear", domain |-> << 5, 10 >>, min |-> 0],
         [domain |-> << 5, 10 >>, min |-> 3] }

\* themes set on the views of a pie chart, a transposed full circle
ThemeChoices ==
  { [widthRatio |-> [multiplePie |-> Frac(1, 1)]],
    [widthRatio |-> [multiplePie |-> Frac(1, 2), column |-> Frac(1, 2)]],
    [defaultColor |-> "red"] }

InitTheme == InitRoot(1, ThetaTransposed, << >>, << >>, << >>, LiveInteractions)

NextTheme ==
  \/ CreateView(1, LeftRegion)
  \/ AddGeometry(Len(parent), Interval)
  \/ \E v \in ViewIds, themeCfg \in ThemeChoices : Theme(v, themeCfg)
  \/ \E isUpdate \in BOOLEAN : Render(1, isUpdate)

SpecTheme == InitTheme /\ [][NextTheme]_vars

\* a ScaleDef updated with ticks and tick methods
TickChoices ==
  { [type |-> t] : t \in {"linear", "log", "time", "cat"} }
  \cup { EmptyDef,
         [ticks |-> << 2, 4 >>],
         [tickMethod |-> [kind |-> "function", name |-> "custom"]],
         [tickMethod |-> [kind |-> "string", name |-> "r-pretty"]],
         [tickMethod |-> [kind |-> "string", name |-> "d3-log"]],
         [tickMethod |-> [kind |-> "string", name |-> "quantile"]],
         [tickMethod |-> [kind |-> "string", name |-> "toString"]],
         [type |-> "time", tickMethod |-> [kind |-> "string", name |-> "nice"]] }

NextTicks ==
  \/ \E u \in TickChoices : Update(u)
  \/ \E o \in TickChoices : Construct(o)

SpecTicks == Init /\ [][NextTicks]_vars

\* a tooltip controller shown and hidden at the points of a canvas, between
\* renders that change the geometries, the coordinate and the tooltip option
RecordA ==
  [ color |-> "red", name |-> "value", value |-> "13", title |-> "1991",
    mappingData |-> [x |-> << 5 >>, y |-> << 0, 5 >>] ]
RecordB ==
  [ color |-> "red", name |-> "value", value |-> "34", title |-> "1992",
    mappingData |-> [x |-> << 6 >>, y |-> << 0, 9 >>] ]
RecordN ==
  [ color |-> "blue", name |-> "count", value |-> "13", title |-> "",
    mappingData |-> [x |-> << 5 >>, y |-> << 8 >>] ]

\* an interval grouped by year, a line through both years, a point
BarsGeometry(visible, tooltipOption) ==
  [ visible |-> visible, tooltipOption |-> tooltipOption, shapePerArray |-> FALSE,
    dataArray |-> << << RecordA >>, << RecordB >> >> ]
LineGeometry ==
  [ visible |-> TRUE, tooltipOption |-> TRUE, shapePerArray |-> TRUE,
    dataArray |-> << << RecordA, RecordB >> >> ]
PointGeometry ==
  [ visible |-> TRUE, tooltipOption |-> TRUE, shapePerArray |-> FALSE,
    dataArray |-> << << RecordN >> >> ]

TooltipGeometries ==
  { << BarsGeometry(TRUE, TRUE) >>,
    << BarsGeometry(TRUE, TRUE), LineGeometry >>,
    << LineGeometry, PointGeometry >>,
    << BarsGeometry(FALSE, TRUE), PointGeometry >>,
    << LineGeometry, BarsGeometry(TRUE, FALSE) >> }

TooltipOptions ==
  { EmptyDef,
    [showCrosshairs |-> TRUE],
    [showCrosshairs |-> TRUE, crosshairs |-> [type |-> "y"]],
    [showCrosshairs |-> TRUE, crosshairs |-> [type |-> "xy"], showTooltipMarkers |-> TRUE],
    [showCrosshairs |-> TRUE, crosshairs |-> [type |-> "y"], shared |-> FALSE, follow |-> TRUE] }

TipPoints == {[x |-> 5, y |-> 5], [x |-> 6, y |-> 9], [x |-> 5, y |-> 8], [x |-> 20, y |-> 20]}

\* the renders: every list of geometries without crosshairs, the intervals
\* under every option, the line and the point with tooltips that are not shared
TooltipSettings ==
  { << gs, EmptyDef >> : gs \in TooltipGeometries }
  \cup { << << BarsGeometry(TRUE, TRUE) >>, o >> : o \in TooltipOptions }
  \cup { << << LineGeometry, PointGeometry >>, o >> :
            o \in {o \in TooltipOptions : "shared" \in DOMAIN o} }

NextTip ==
  \/ \E point \in TipPoints : TooltipShow(point)
  \/ TooltipHide
  \/ \E setting \in TooltipSettings, isRect \in BOOLEAN :
       TooltipUpdate(setting[1], isRect, setting[2])

SpecTip == Init /\ [][NextTip]_vars

\* interactions attached to and removed from the views of a tree, and views destroyed
NextInteraction ==
  \/ \E p \in ViewIds : CreateView(p, LeftRegion)
  \/ \E v \in ViewIds, name \in InteractionNames, created \in BOOLEAN :
       Interaction(v, name, created)
  \/ \E v \in ViewIds, name \in InteractionNames : RemoveInteraction(v, name)
  \/ \E v \in ViewIds : Destroy(v)

SpecInteraction == Init /\ [][NextInteraction]_vars

NextScaleDef ==
  \/ \E u \in UpdateChoices : Update(u)
  \/ \E o \in UpdateChoices : Construct(o)

SpecScaleDef == Init /\ [][NextScaleDef]_vars

\* filters set and removed between the renders of a tree
FilterChoices ==
  { << "year", c >> : c \in {"not1992", "null"} }
  \cup { << "value", c >> : c \in {"over20", "null"} }

NextFilter ==
  \/ CreateView(1, LeftRegion)
  \/ \E g \in GeometryOptions : AddGeometry(Len(parent), g)
  \/ Render(1, TRUE)
  \/ \E fc \in FilterChoices : Filter(Len(parent), fc[1], fc[2])

SpecFilter == Init /\ [][NextFilter]_vars

\* events of the shapes of a view, delegated or not, with and without listeners
LayerEvents ==
  { [delegate |-> d, type |-> "click", delegateObject |-> o, inheritNames |-> ns] :
      d \in {"", "legend-item-name"}, o \in BOOLEAN,
      ns \in {<< >>, << "legend-item" >>, << "legend-item", "component" >>} }

ListenedNames == {"legend-item-name:click", "legend-item:click", "component:click"}

NextDelegate ==
  \/ \E p \in ViewIds : CreateView(p, LeftRegion)
  \/ \E v \in ViewIds, name \in ListenedNames : On(v, name)
  \/ \E v \in ViewIds, evt \in LayerEvents : LayerEvent(v, evt)

SpecDelegate == Init /\ [][NextDelegate]_vars

\* canvas and layer events delivered to a tree whose views are rendered and destroyed
DestroyEvents ==
  { [delegate |-> "", type |-> t, point |-> p] :
      t \in {"mousemove", "mouseenter"}, p \in {[x |-> 5, y |-> 5], [x |-> 18, y |-> 10]} }

NextDestroy ==
  \/ \E p \in ViewIds : CreateView(p, LeftRegion)
  \/ \E v \in ViewIds : Render(v, FALSE)
  \/ \E v \in ViewIds : Destroy(v)
  \/ \E evt \in DestroyEvents : CanvasEvent(evt)
  \/ \E v \in ViewIds, evt \in LayerEvents : LayerEvent(v, evt)

SpecDestroy == Init /\ [][NextDestroy]_vars

(* ------------------------------------------------------------------ *)
(* Reading the log of the last operation                                   *)
(* ------------------------------------------------------------------ *)
DataEvents == {"data", "scale.create", "scale.update", "scale.sync", "scale.range",
               "geometries.init", "geometries.update"}
LayoutEvents == {"layout", "controllers.render", "controllers.update"}
PaintEvents == {"paint", "geometry.paint", "components.render"}
ScaleMutations == {"scale.create", "scale.update", "scale.sync", "scale.range"}

PassOf(ev) == IF ev \in DataEvents THEN 1 ELSE IF ev \in LayoutEvents THEN 2
              ELSE IF ev \in PaintEvents THEN 3 ELSE 0

Count(ev, v) == Cardinality({i \in 1..Len(log) : log[i].ev = ev /\ log[i].view = v})

Tree(v) == Subtree(World, v)

DataPassDone == lastOp.op \in {"render", "changeData"}

(* ------------------------------------------------------------------ *)
(* C1: in a render() call the data pass is over for the whole subtree      *)
(* before the layout pass starts on any of its views, and the layout pass  *)
(* is over for the whole subtree before the paint pass starts; every view  *)
(* of the subtree gets each pass once.                                     *)
(* ------------------------------------------------------------------ *)
C1_PassesInOrder ==
  lastOp.op = "render" =>
    /\ \A i, j \in 1..Len(log) :
         (i < j /\ PassOf(log[i].ev) # 0 /\ PassOf(log[j].ev) # 0)
           => PassOf(log[i].ev) <= PassOf(log[j].ev)
    /\ \A u \in Tree(lastOp.view) :
         Count("data", u) = 1 /\ Count("layout", u) = 1 /\ Count("paint", u) = 1

C1_Witness ==
  /\ lastOp.op = "render"
  /\ lastOp.view = 1
  /\ \E u \in Descendants(World, 1) : Count("geometry.paint", u) > 0 /\ Count("scale.create", 1) > 0
  /\ Count("geometry.paint", 1) > 0

(* ------------------------------------------------------------------ *)
(* Scale sharing after a data pass                                         *)
(* ------------------------------------------------------------------ *)
ScaleFieldsOf(v) == Range(getScaleFields(World, v))
ScaleOf(v, f) == getScaleByField(World, v, f, NoKey)
RootPool(v) == scalePool[getRootView(World, v)]

\* C2 as stated: after a data pass any two views of the tree whose geometries
\* reference the same field resolve it to the identical scale instance.
C2_SameInstanceAcrossViews ==
  DataPassDone =>
    \A u1, u2 \in Tree(lastOp.view) : \A f \in ScaleFieldsOf(u1) \cap ScaleFieldsOf(u2) :
      ScaleOf(u1, f) = ScaleOf(u2, f)

\* C2 amended: after a data pass two different views of the tree whose geometries
\* reference the same field, neither passing an explicit key, resolve it to two
\* different scale instances, each the one registered under the view's own key;
\* a lookup with one explicit key gives the same instance on every view.
C2_OwnInstancePerView ==
  DataPassDone =>
    /\ \A u1, u2 \in Tree(lastOp.view) : \A f \in ScaleFieldsOf(u1) \cap ScaleFieldsOf(u2) :
         /\ ScaleOf(u1, f) # Undefined
         /\ ScaleOf(u1, f) = RootPool(u1)[getScaleKey(u1, f)]
         /\ u1 # u2 => ScaleOf(u1, f) # ScaleOf(u2, f)
    /\ \A u1, u2 \in ViewIds : \A f \in Fields :
         getScaleByField(World, u1, f, SharedKey) = getScaleByField(World, u2, f, SharedKey)

C2_Witness ==
  /\ DataPassDone
  /\ \E u1, u2 \in Tree(lastOp.view) :
       u1 # u2 /\ "year" \in ScaleFieldsOf(u1) \cap ScaleFieldsOf(u2)
  /\ SharedKey \in DOMAIN scalePool[1]

(* ------------------------------------------------------------------ *)
(* C3: a scale created without an explicit key is registered under the    *)
(* key of the view createScale was first called on; the ancestors pass    *)
(* the key on unchanged; entries of different views are separate entries, *)
(* and one entry serves several views only under an explicit key.         *)
(* ------------------------------------------------------------------ *)
C3_KeyOfCallingView ==
  /\ \A k \in DOMAIN scalePool[1] :
       k = SharedKey \/ (k[1] \in ViewIds /\ k[2] \in ScaleFieldsOf(k[1]))
  /\ \A k1, k2 \in DOMAIN scalePool[1] : k1 # k2 => scalePool[1][k1] # scalePool[1][k2]
  /\ DataPassDone =>
       \A u \in Tree(lastOp.view) : \A f \in ScaleFieldsOf(u) :
         getScaleKey(u, f) \in DOMAIN scalePool[1]
  /\ lastOp.op = "createScale" =>
       /\ lastOp.key \in DOMAIN scalePool[1]
       /\ log[Len(log)].view = 1

C3_Witness ==
  /\ DataPassDone
  /\ lastOp.view = 1
  /\ \E u \in ViewIds : parent[u] # 0 /\ getScaleKey(u, "year") \in DOMAIN scalePool[1]
  /\ getScaleKey(1, "year") \in DOMAIN scalePool[1]
  /\ SharedKey \in DOMAIN scalePool[1]

(* ------------------------------------------------------------------ *)
(* C4: after a data pass every geometry of a view that references a field  *)
(* holds the same scale instance for it, the one getScaleByField returns.  *)
(* ------------------------------------------------------------------ *)
C4_OneScalePerViewField ==
  DataPassDone =>
    \A u \in Tree(lastOp.view) : \A f \in Fields :
      LET users == {i \in 1..Len(geometries[u]) : f \in Range(geometries[u][i].scaleFields)}
      IN /\ \A i \in users : /\ f \in DOMAIN geometries[u][i].scales
                             /\ geometries[u][i].scales[f] = ScaleOf(u, f)
                             /\ ScaleOf(u, f) # Undefined
         /\ Cardinality({k \in DOMAIN RootPool(u) : k = getScaleKey(u, f)}) <= 1

C4_Witness ==
  /\ DataPassDone
  /\ \E u \in Tree(lastOp.view) : parent[u] # 0 /\ Len(geometries[u]) = 2

(* ------------------------------------------------------------------ *)
(* C5 as stated: in a render() or changeData() call no scale is created,   *)
(* updated, synchronised or given a range after a geometry of the tree has *)
(* been painted in that call.                                              *)
(* ------------------------------------------------------------------ *)
C5_NoScaleMutationAfterPaint ==
  DataPassDone =>
    \A i, j \in 1..Len(log) :
      (i < j /\ log[i].ev = "geometry.paint") => log[j].ev \notin ScaleMutations

(* ------------------------------------------------------------------ *)
(* Lifecycle claims                                                        *)
(* ------------------------------------------------------------------ *)
\* C6 as stated: after clear() on a view, the root or a nested one, no scale
\* created for it remains in the pool: getScaleByField is undefined for every field.
C6_NoScaleAfterClear ==
  lastOp.op = "clear" => \A f \in Fields : ScaleOf(lastOp.view, f) = Undefined

Cleared(u) ==
  /\ filteredData[u] = << >>
  /\ coordinateInstance[u] = NoCoordinate
  /\ geometries[u] = << >>
  /\ \A i \in 1..Len(controllers[u]) : controllers[u][i].state = "cleared"

Rendered(u) ==
  /\ coordinateInstance[u] # NoCoordinate
  /\ filteredData[u] = DataOf(World, u)
  /\ \A i \in 1..Len(controllers[u]) : controllers[u][i].state = "rendered"

\* C7: clear() on a rendered view leaves it and every descendant with empty
\* filtered data, no coordinate, no geometry and cleared controllers, destroys
\* no view, and a following render() is possible and renders the view again.
C7_ClearReturnsToInitialized ==
  [][ /\ lastOp'.op = "clear" =>
           /\ \A u \in Subtree(World, lastOp'.view) : Cleared(u)'
           /\ destroyed' = destroyed
      /\ (lastOp'.op = "render" /\ lastOp'.afterClear) =>
           \A u \in Subtree(World, lastOp'.view) : Rendered(u)' ]_vars

C7_Witness ==
  /\ lastOp.op = "render"
  /\ lastOp.afterClear
  /\ views[lastOp.view] # << >>

C7_WitnessCleared ==
  /\ lastOp.op = "clear"
  /\ lastOp.rendered
  /\ views[lastOp.view] # << >>

\* C8 as stated: destroy() destroys every descendant view, destroys the
\* controllers of the view and of every descendant, destroys every live
\* interaction and removes the layer groups.
C8_DestroyCascades ==
  lastOp.op = "destroy" =>
    \A u \in Tree(lastOp.view) :
      /\ destroyed[u]
      /\ \A i \in 1..Len(controllers[u]) : controllers[u][i].state = "destroyed"
      /\ \A n \in InteractionNames : interactions[u][n].state # "live"
      /\ groups[u] = "removed"

(* ------------------------------------------------------------------ *)
(* Options of a child view                                                 *)
(* ------------------------------------------------------------------ *)
OptionOps == {"scale", "legend", "coordinate", "animate", "data", "changeTooltip", "pushData"}

Deref(w, ref) == IF ref = Undefined THEN << >> ELSE w.heap[ref]

\* the six options of a view, as values
OptionValues(w, u) ==
  [ data |-> Deref(w, w.options[u].data),
    scales |-> Deref(w, w.options[u].scales),
    coordinate |-> Deref(w, w.coordinateController[u]),
    tooltip |-> Deref(w, w.options[u].tooltip),
    legends |-> Deref(w, w.options[u].legends),
    animate |-> w.options[u].animate ]

\* the five options other than data
ClonedValues(w, u) ==
  [k \in {"scales", "coordinate", "tooltip", "legends", "animate"} |-> OptionValues(w, u)[k]]

\* C9 as stated: the child of createView() gets the six options of the parent
\* as they are, and afterwards a change made to an option of one view, in
\* place or through a setter, changes no option of any other view.
C9_AllSixIndependent ==
  [][ /\ lastOp'.op = "createView" =>
           OptionValues(World', Len(parent')) = OptionValues(World, lastOp'.view)
      /\ lastOp'.op \in OptionOps =>
           \A u \in ViewIds \ {lastOp'.view} :
             OptionValues(World', u) = OptionValues(World, u) ]_vars

\* C9, amended: the child gets the values of the six options; scales,
\* coordinate, tooltip and legends are copies and animate is a value, so a
\* change to one of these five on one view changes none on another view; the
\* data array is the parent's own array, so a change made to it in place shows
\* in every view that still holds it, while replacing the array of one view
\* leaves the arrays of the others alone.
C9_DataSharedOthersIndependent ==
  [][ /\ lastOp'.op = "createView" =>
           /\ OptionValues(World', Len(parent')) = OptionValues(World, lastOp'.view)
           /\ options'[Len(parent')].data = options[lastOp'.view].data
      /\ lastOp'.op \in OptionOps =>
           \A u \in ViewIds \ {lastOp'.view} :
             /\ ClonedValues(World', u) = ClonedValues(World, u)
             /\ options'[u].data = options[u].data
             /\ options[u].data # options[lastOp'.view].data =>
                  OptionValues(World', u).data = OptionValues(World, u).data
             /\ (lastOp'.op = "pushData" /\ options[u].data = options[lastOp'.view].data) =>
                  /\ OptionValues(World', u).data = OptionValues(World', lastOp'.view).data
                  /\ OptionValues(World', u).data # OptionValues(World, u).data ]_vars

\* a child that changed its scales and then pushed a row on the array it shares with its parent
C9_Witness ==
  /\ lastOp.op = "pushData"
  /\ parent[lastOp.view] # 0
  /\ options[lastOp.view].data = options[parent[lastOp.view]].data
  /\ OptionValues(World, parent[lastOp.view]).data = Append(DataA, Row94)
  /\ OptionValues(World, lastOp.view).scales # OptionValues(World, parent[lastOp.view]).scales

(* ------------------------------------------------------------------ *)
(* Plot events                                                             *)
(* ------------------------------------------------------------------ *)
\* how many times the view emitted the event during the operation
Emitted(w, ev, v) == Cardinality({i \in 1..Len(w.log) : w.log[i].ev = ev /\ w.log[i].view = v})

\* C10 as stated: a canvas event makes a view emit plot:mouseenter exactly once
\* when isPreMouseInPlot goes from false to true, plot:mouseleave exactly once
\* when it goes from true to false, and neither when the flag stays as it was.
C10_EnterLeaveOnlyOnFlip ==
  [][ lastOp'.op = "canvasEvent" =>
        \A v \in ViewIds :
          /\ Emitted(World', PLOT_EVENTS.MOUSE_ENTER, v) =
               IF ~isPreMouseInPlot[v] /\ isPreMouseInPlot'[v] THEN 1 ELSE 0
          /\ Emitted(World', PLOT_EVENTS.MOUSE_LEAVE, v) =
               IF isPreMouseInPlot[v] /\ ~isPreMouseInPlot'[v] THEN 1 ELSE 0 ]_vars

\* the names of the plot events
PlotNames == {"plot:" \o t : t \in ALL_EVENTS} \cup {PLOT_EVENTS.MOUSE_ENTER, PLOT_EVENTS.MOUSE_LEAVE}

\* what the view emitted during the operation, in order
EmittedBy(w, v) == SelectSeq(w.log, LAMBDA e : e.view = v)

\* the raw name is the last thing the view emitted
RawNameLast(w, v, type) ==
  LET es == EmittedBy(w, v)
  IN /\ es # << >>
     /\ es[Len(es)].ev = type
     /\ \A i \in 1..(Len(es) - 1) : es[i].ev \in PlotNames

\* C11 as stated: a raw canvas event of one of the twelve types makes the view
\* emit plot:<type> if and only if the point is inside the plot; any other raw
\* event emits no plot event and leaves isPreMouseInPlot as it was; the raw
\* name is emitted in every case, after the plot handling.
C11_PlotTypeIffInside ==
  [][ (lastOp'.op = "canvasEvent" /\ lastOp'.evt.delegate = "") =>
        \A v \in ViewIds :
          LET evt == lastOp'.evt
              inside == isPointInPlot(World, v, evt.point)
          IN /\ evt.type \in ALL_EVENTS =>
                  (Emitted(World', "plot:" \o evt.type, v) > 0 <=> inside)
             /\ evt.type \notin ALL_EVENTS =>
                  /\ \A n \in PlotNames : Emitted(World', n, v) = 0
                  /\ isPreMouseInPlot'[v] = isPreMouseInPlot[v]
             /\ RawNameLast(World', v, evt.type) ]_vars

\* C11, amended: for the eleven types other than mouseleave, plot:<type> is
\* emitted, once, if and only if the point is inside the plot; plot:mouseleave
\* is emitted, once, if and only if the point is inside the plot or the pointer
\* was inside before (isPreMouseInPlot), so also for a mouseleave outside the
\* plot; any other raw event emits no plot event and leaves the flag as it
\* was; the raw name is emitted in every case, after the plot handling.
C11_PlotTypeInsideOrLeaving ==
  [][ (lastOp'.op = "canvasEvent" /\ lastOp'.evt.delegate = "") =>
        \A v \in ViewIds :
          LET evt == lastOp'.evt
              inside == isPointInPlot(World, v, evt.point)
              expected == IF evt.type = "mouseleave"
                          THEN inside \/ isPreMouseInPlot[v] ELSE inside
          IN /\ evt.type \in ALL_EVENTS =>
                  Emitted(World', "plot:" \o evt.type, v) = IF expected THEN 1 ELSE 0
             /\ evt.type \notin ALL_EVENTS =>
                  /\ \A n \in PlotNames : Emitted(World', n, v) = 0
                  /\ isPreMouseInPlot'[v] = isPreMouseInPlot[v]
             /\ RawNameLast(World', v, evt.type) ]_vars

\* a mouseleave outside the plot of a view that emitted plot:mouseleave for it
C11_Witness ==
  /\ lastOp.op = "canvasEvent"
  /\ lastOp.evt.type = "mouseleave"
  /\ \E v \in ViewIds :
       /\ ~isPointInPlot(World, v, lastOp.evt.point)
       /\ coordinateInstance[v] # NoCoordinate
       /\ Emitted(World, PLOT_EVENTS.MOUSE_LEAVE, v) = 1

(* ------------------------------------------------------------------ *)
(* Delegated events                                                        *)
(* ------------------------------------------------------------------ *)
NamesEmitted(w, v) == LET es == EmittedBy(w, v) IN [i \in 1..Len(es) |-> es[i].ev]

\* the composite name, then `inherited:type` for each inherited name
CompositeThenInherited(evt) ==
  << NameOf(evt) >> \o [i \in 1..Len(evt.inheritNames) |-> evt.inheritNames[i] \o ":" \o evt.type]

\* C12 as stated: a layer event with a colon in its name is emitted under the
\* composite name first and then under `inherited:type` for each inherited name
\* of the shape, in addition and not instead; a layer event without a colon is
\* not emitted at all. Emissions are compared on the names that have a listener.
C12_CompositeThenEachInherited ==
  lastOp.op = "layerEvent" =>
    LET v == lastOp.view
        evt == lastOp.evt
        heard(names) == SelectSeq(names, LAMBDA n : n \in events[v])
    IN IF evt.delegate = "" THEN NamesEmitted(World, v) = << >>
       ELSE heard(NamesEmitted(World, v)) = heard(CompositeThenInherited(evt))

\* C12, amended: a layer event with a colon in its name is emitted under the
\* composite name first; when the event carries a delegateObject it is then
\* emitted once more under `inherited:type` for each inherited name that the
\* view has a listener for, in the declared order, in addition and not instead;
\* without a delegateObject only the composite name is emitted; a layer event
\* without a colon is not emitted at all.
C12_InheritedNeedDelegateObject ==
  lastOp.op = "layerEvent" =>
    LET v == lastOp.view
        evt == lastOp.evt
        all == CompositeThenInherited(evt)
        inherited == SubSeq(all, 2, Len(all))
    IN IF evt.delegate = "" THEN NamesEmitted(World, v) = << >>
       ELSE NamesEmitted(World, v) =
              << NameOf(evt) >> \o
              (IF evt.delegateObject
               THEN SelectSeq(inherited, LAMBDA n : n \in events[v]) ELSE << >>)

\* a delegated event with two inherited names, both listened to, emitted three times
C12_Witness ==
  /\ lastOp.op = "layerEvent"
  /\ lastOp.evt.delegateObject
  /\ Len(lastOp.evt.inheritNames) = 2
  /\ NamesEmitted(World, lastOp.view) =
       << "legend-item-name:click", "legend-item:click", "component:click" >>

(* ------------------------------------------------------------------ *)
(* Filters                                                                 *)
(* ------------------------------------------------------------------ *)
\* the rows of the data of the view that pass the filter of every filtered field
Retained(v) ==
  SelectSeq(DataOf(World, v),
            LAMBDA datum : \A field \in DOMAIN options[v].filters :
                             Condition(options[v].filters[field], datum[field], datum))

\* s is t with some rows left out
RECURSIVE IsSubSeq(_, _)
IsSubSeq(s, t) ==
  IF s = << >> THEN TRUE
  ELSE IF t = << >> THEN FALSE
  ELSE IF Head(s) = Head(t) THEN IsSubSeq(Tail(s), Tail(t))
  ELSE IsSubSeq(s, Tail(t))

\* C13: filterData(data) is the rows of data, in their order, that pass the
\* filter of every filtered field, so a sub-sequence of data and no longer;
\* with no filter it is data, unchanged. A data pass stores it as filteredData.
C13_FilterKeepsRowsPassingAll ==
  \A v \in ViewIds :
    LET data == DataOf(World, v)
        result == filterData(World, v, data)
    IN /\ result = Retained(v)
       /\ IsSubSeq(result, data)
       /\ Len(result) <= Len(data)
       /\ DOMAIN options[v].filters = {} => result = data
       /\ (lastOp.op = "render" /\ v \in Tree(lastOp.view)) => filteredData[v] = result

\* a render with filters on two fields that rejects a row that passes one of the two only
C13_Witness ==
  /\ lastOp.op = "render"
  /\ DOMAIN options[lastOp.view].filters = {"year", "value"}
  /\ Len(filteredData[lastOp.view]) < Len(DataOf(World, lastOp.view))
  /\ \E i \in 1..Len(DataOf(World, lastOp.view)) :
       LET datum == DataOf(World, lastOp.view)[i]
       IN /\ Some(options[lastOp.view].filters, datum)
          /\ ~Every(options[lastOp.view].filters, datum)

\* C14: after render(true) every geometry of the view is given the rows its
\* filters retain, n - k of n when k are rejected; after the filter is removed
\* and render(true) runs again every geometry is given all n rows again.
C14_FilterRoundTrip ==
  (lastOp.op = "render" /\ lastOp.isUpdate) =>
    \A v \in Tree(lastOp.view) : \A i \in 1..Len(geometries[v]) :
      /\ geometries[v][i].data = Retained(v)
      /\ (v = lastOp.view /\ lastOp.afterRemoved) =>
           geometries[v][i].data = DataOf(World, v)

\* a render(true) that follows the removal of the only filter of a view whose geometry had rows hidden
C14_Witness ==
  /\ lastOp.op = "render"
  /\ lastOp.isUpdate
  /\ lastOp.afterRemoved
  /\ geometries[lastOp.view] # << >>
  /\ geometries[lastOp.view][1].data = DataA

(* ------------------------------------------------------------------ *)
(* Ranges of the category scales                                           *)
(* ------------------------------------------------------------------ *)
\* the x and y scales of the view
XYScales(v) ==
  { id \in Range(<< getXScale(World, v) >> \o getYScales(World, v)) : id # Undefined }

Categorical(sc) == sc.type \in CategoryTypes \cup {"identity"}
UserRange(v, sc) == "range" \in DOMAIN Get(ScalesOf(World, v), sc.field)

\* the fraction f is n / d
IsFrac(f, n, d) == f[2] # 0 /\ f[1] * d = n * f[2]

\* C15: after a data pass a category or identity x or y scale with n >= 2
\* values and no configured range has the range [0, 1 - 1/n] under a full
\* circle that is not transposed and [1/(2n), 1 - 1/(2n)] under a coordinate
\* that is no full circle.
C15_RangeOfSeveralCategories ==
  lastOp.op = "render" =>
    \A v \in Tree(lastOp.view) : \A id \in XYScales(v) :
      LET sc == scaleHeap[id]
          n == Len(sc.values)
          coord == coordinateInstance[v]
      IN (Categorical(sc) /\ n >= 2 /\ ~UserRange(v, sc)) =>
           /\ (isFullCircle(coord) /\ ~coord.isTransposed) =>
                IsFrac(sc.range[1], 0, 1) /\ IsFrac(sc.range[2], n - 1, n)
           /\ ~isFullCircle(coord) =>
                IsFrac(sc.range[1], 1, 2 * n) /\ IsFrac(sc.range[2], 2 * n - 1, 2 * n)

\* five categories on a full circle that is not transposed: [0, 0.8]
C15_Witness ==
  /\ lastOp.op = "render"
  /\ isFullCircle(coordinateInstance[1])
  /\ ~coordinateInstance[1].isTransposed
  /\ \E id \in XYScales(1) :
       /\ Len(scaleHeap[id].values) = 5
       /\ scaleHeap[id].type = "cat"
       /\ scaleHeap[id].range = << << 0, 1 >>, << 4, 5 >> >>

\* four categories on a cartesian coordinate: [0.125, 0.875]
C15_WitnessFour ==
  /\ lastOp.op = "render"
  /\ coordinateInstance[1].type = "rect"
  /\ \E id \in XYScales(1) :
       /\ Len(scaleHeap[id].values) = 4
       /\ scaleHeap[id].range = << << 1, 8 >>, << 7, 8 >> >>

\* C16: after a data pass a category or identity x or y scale with one value
\* and no configured range has the range [0.5, 1] under every coordinate, a
\* full circle included, and so a range of a width that is not zero.
C16_RangeOfSingleCategory ==
  lastOp.op = "render" =>
    \A v \in Tree(lastOp.view) : \A id \in XYScales(v) :
      LET sc == scaleHeap[id]
      IN (Categorical(sc) /\ Len(sc.values) = 1 /\ ~UserRange(v, sc)) =>
           /\ IsFrac(sc.range[1], 1, 2)
           /\ IsFrac(sc.range[2], 1, 1)
           /\ sc.range[1] # sc.range[2]

\* one category on a full circle
C16_Witness ==
  /\ lastOp.op = "render"
  /\ isFullCircle(coordinateInstance[1])
  /\ \E id \in XYScales(1) :
       /\ scaleHeap[id].type = "cat"
       /\ Len(scaleHeap[id].values) = 1
       /\ scaleHeap[id].range = << << 1, 2 >>, << 1, 1 >> >>

\* the range the scale was constructed with
ConstructedRange(sc) == IF "range" \in DOMAIN sc.def THEN sc.def["range"] ELSE DefaultRange

\* C17 as stated: the data pass changes the range of an x or y scale only when
\* the scale is category or identity typed, has a domain that is not empty and
\* has no configured range; a continuous scale, a scale with a configured range
\* and a scale with an empty domain keep the range they had.
C17_RangeChangedOnlyForCategories ==
  lastOp.op = "render" =>
    \A v \in Tree(lastOp.view) : \A id \in XYScales(v) :
      LET sc == scaleHeap[id]
      IN ~(Categorical(sc) /\ Len(sc.values) > 0 /\ ~UserRange(v, sc)) =>
           sc.range = ConstructedRange(sc)

(* ------------------------------------------------------------------ *)
(* ScaleDef: classification, update({}) and min / max                      *)
(* ------------------------------------------------------------------ *)
Classes(sd) ==
  { c \in {"category", "continuous", "identity"} :
      \/ c = "category" /\ isCategory(sd)
      \/ c = "continuous" /\ isContinuous(sd)
      \/ c = "identity" /\ isIdentity(sd) }

ClassOfType(type) ==
  IF type \in {"linear", "log", "pow", "sqrt", "time"} THEN {"continuous"}
  ELSE IF type \in {"ordinal", "band", "point", "cat", "category", "timeCat"} THEN {"category"}
  ELSE IF type = "identity" THEN {"identity"}
  ELSE {}

\* C18: after construction and after every sequence of updates at most one of
\* isCategory(), isContinuous() and isIdentity() is true, the result is a
\* function of the current type alone, and exactly one is true for each of
\* the continuous types, the category types and identity.
C18_ClassificationByType ==
  /\ Cardinality(Classes(scaleDefInst)) <= 1
  /\ Classes(scaleDefInst) = ClassOfType(scaleDefInst.options.type)
  /\ scaleDefInst.options.type \in ScaleTypes \ {"quantile"}
       => Cardinality(Classes(scaleDefInst)) = 1

\* a ScaleDef updated more than once whose type was changed to time, which is
\* continuous and nothing else
C18_Witness ==
  /\ callCount >= 2
  /\ lastOp.op = "update"
  /\ scaleDefInst.options.type = "time"
  /\ isContinuous(scaleDefInst) /\ ~isCategory(scaleDefInst) /\ ~isIdentity(scaleDefInst)

\* the domain the scale of a ScaleDef was last given
ResolvedDomain(sd) == sd.scale.options.domain

\* options.min and options.max, as far as they are set
Extent(sd) == [k \in (DOMAIN sd.options) \cap {"min", "max"} |-> sd.options[k]]

\* C19: update({}) in any state reached by a construction and updates of
\* type, domain, min, max, ticks or transform changes neither the output of
\* getTicks() nor the resolved domain, min or max.
C19_EmptyUpdateChangesNothing ==
  [][ (lastOp'.op = "update" /\ lastOp'.updateOptions = EmptyDef)
        => /\ getTicks(scaleDefInst') = getTicks(scaleDefInst)
           /\ ResolvedDomain(scaleDefInst') = ResolvedDomain(scaleDefInst)
           /\ Extent(scaleDefInst') = Extent(scaleDefInst) ]_vars

\* C20: after update(options) with an explicit min and/or max, whatever their
\* numeric value, the first entry of the resolved domain is transform(min) and
\* the last entry is transform(max); an explicit domain is resolved to its
\* element-wise transform before min and max are applied.
C20_MinMaxOverrideDomainEnds ==
  [][ lastOp'.op = "update"
        => LET u == lastOp'.updateOptions
               transform == getOptions(scaleDefInst').transform
               resolved == ResolvedDomain(scaleDefInst')
           IN /\ "min" \in DOMAIN u
                   => resolved # << >> /\ resolved[1] = Transform(transform, u.min)
              /\ "max" \in DOMAIN u
                   => resolved # << >> /\ resolved[Len(resolved)] = Transform(transform, u.max)
              /\ ("domain" \in DOMAIN u /\ DOMAIN u \cap {"min", "max"} = {})
                   => resolved = MapSeq(transform, u.domain) ]_vars

\* C21: an update whose type differs from the current one instantiates a
\* fresh scale and puts the defaults of the new type in effect: a scale of
\* another type updated to time or timeCat, with no transform or formatter
\* supplied by the user, has the date-parsing transform and the formatter of
\* its type; an update without a type, or with the current type, keeps the
\* scale instance.
C21_TypeChangeTakesDefaults ==
  [][ lastOp'.op = "update"
        => LET u == lastOp'.updateOptions
               old == scaleDefInst
               new == scaleDefInst'
               changed == "type" \in DOMAIN u /\ u.type # old.options.type
           IN /\ changed => new.created = old.created + 1 /\ new.scale.type = u.type
              /\ ~changed => new.created = old.created
              /\ ( /\ changed
                   /\ u.type \in {"time", "timeCat"}
                   /\ old.options.transform # "double"
                   /\ "transform" \notin DOMAIN u )
                   => /\ getOptions(new).transform = "toDate"
                      /\ getOptions(new).formatter
                           = (IF u.type = "time" THEN "time" ELSE "date") ]_vars

(* ------------------------------------------------------------------ *)
(* isPointInPlot                                                           *)
(* ------------------------------------------------------------------ *)
ProbePoints ==
  { [x |-> 12, y |-> 12], [x |-> 30, y |-> 30], [x |-> 12, y |-> 30],
    [x |-> 5, y |-> 5], [x |-> 1, y |-> 1], [x |-> 2, y |-> 22] }

Least(a, b) == IF a <= b THEN a ELSE b
Most(a, b) == IF a <= b THEN b ELSE a

\* the point is within the box spanned by the start and the end of the coordinate
InSpan(coord, p) ==
  /\ Least(coord.start.x, coord.end.x) <= p.x /\ p.x <= Most(coord.start.x, coord.end.x)
  /\ Least(coord.start.y, coord.end.y) <= p.y /\ p.y <= Most(coord.start.y, coord.end.y)

\* C22: isPointInCoordinate is true iff, on a theta coordinate, point.x lies
\* between start.x and end.x and point.y between start.y and end.y, and on
\* every other coordinate both components of the inverted point lie in
\* [0, 1]; it is false while the view has no coordinate instance (before the
\* first render and after clear). On a rectangular coordinate a point in the
\* middle of the box is inside and a point beyond its far corner is outside.
C22_PointInCoordinate ==
  \A v \in ViewIds : \A p \in ProbePoints :
    LET coord == coordinateInstance[v]
    IN /\ coord = NoCoordinate => ~isPointInPlot(World, v, p)
       /\ (coord # NoCoordinate /\ coord.type = "theta")
            => (isPointInPlot(World, v, p) <=> InSpan(coord, p))
       /\ (coord # NoCoordinate /\ coord.type # "theta")
            => (isPointInPlot(World, v, p) <=>
                  /\ InSpan(coord, p)
                  /\ coord.start.x # coord.end.x /\ coord.start.y # coord.end.y)
       /\ (lastOp.op = "clear" /\ v \in Subtree(World, lastOp.view)) => coord = NoCoordinate
       /\ (lastOp.op = "new" \/ (lastOp.op = "createView" /\ v = Len(parent)))
            => coord = NoCoordinate

\* a rendered view with a rectangular coordinate over (2,2)-(22,22): the point
\* in its middle is inside, the point beyond its corner and the point under
\* it are outside
C22_Witness ==
  /\ lastOp.op = "render"
  /\ coordinateInstance[1].type = "rect"
  /\ coordinateInstance[1].start = [x |-> 2, y |-> 22]
  /\ coordinateInstance[1].end = [x |-> 22, y |-> 2]
  /\ isPointInPlot(World, 1, [x |-> 12, y |-> 12])
  /\ ~isPointInPlot(World, 1, [x |-> 30, y |-> 30])
  /\ ~isPointInPlot(World, 1, [x |-> 12, y |-> 30])

(* ------------------------------------------------------------------ *)
(* option(name, value)                                                     *)
(* ------------------------------------------------------------------ *)
\* C23: option(name, value) throws when name is found on View.prototype and
\* then leaves the options of the view exactly as they were; for every other
\* name it stores the value under the name, changes nothing else, and returns
\* the view.
C23_OptionThrowsOnBuiltIn ==
  [][ lastOp'.op = "option"
        => LET v == lastOp'.view
               name == lastOp'.name
           IN /\ \A u \in ViewIds \ {v} : options'[u] = options[u]
              /\ heap' = heap
              /\ IF name \in ViewPrototype
                 THEN /\ lastOp'.threw
                      /\ options'[v] = options[v]
                 ELSE /\ ~lastOp'.threw
                      /\ lastOp'.returned = v
                      /\ name \in DOMAIN options'[v]
                      /\ options'[v][name] = lastOp'.opt
                      /\ DOMAIN options'[v] = DOMAIN options[v] \cup {name}
                      /\ \A k \in DOMAIN options[v] \ {name} :
                           options'[v][k] = options[v][k] ]_vars

\* option('data', ...) has thrown on a view that holds an option stored before
C23_Witness ==
  /\ lastOp.op = "option"
  /\ lastOp.threw
  /\ lastOp.name = "data"
  /\ "custom" \in DOMAIN options[lastOp.view]
  /\ options[lastOp.view].data \in {1, 2}

(* ------------------------------------------------------------------ *)
(* facet(type, cfg)                                                        *)
(* ------------------------------------------------------------------ *)
\* C24: facet(type, cfg) with a type that is not registered throws and leaves
\* the state of the view unchanged: the facet instance of an earlier facet()
\* is still the facet instance of the view and is not destroyed, and the next
\* render uses it.
C24_FacetThrowLeavesFacet ==
  [][ /\ (lastOp'.op = "facet" /\ lastOp'.type \notin {"rect", "mirror"})
            => /\ lastOp'.threw
               /\ facetInstance' = facetInstance
               /\ options' = options
      /\ lastOp'.op = "render"
            => \A v \in ViewIds :
                 facetInstance[v] # NoFacet
                   => /\ ~facetInstance[v].destroyed
                      /\ Emitted(World', "facet.render", v) = 1 ]_vars

(* ------------------------------------------------------------------ *)
(* Missing data                                                            *)
(* ------------------------------------------------------------------ *)
\* data records with both fields, with one of them, and with neither
Datums ==
  { [year |-> "1991", value |-> 13], [year |-> "1991"], [value |-> 13], [other |-> 1] }

\* no record of a geometry of the view is drawn at the point
NoMatch(v, point) ==
  \A i \in 1..Len(geometries[v]) :
    \A j \in 1..Len(geometries[v][i].data) : geometries[v][i].data[j].value # point.x

EmptyResults ==
  \A v \in ViewIds :
    /\ geometries[v] = << >>
         => /\ getXScale(World, v) = Undefined
            /\ getYScales(World, v) = << >>
            /\ \A point \in TooltipPoints : getTooltipItems(World, v, point) = << >>
    /\ \A datum \in Datums :
         ("year" \notin DOMAIN datum \/ "value" \notin DOMAIN datum)
           => getXY(World, v, datum) = Undefined

\* C25: missing data gives empty results and neither an error nor a change of
\* state: a view without geometries has no x scale, no y scales and no tooltip
\* items, and its render completes; getXY of a datum without its x or its y
\* field is undefined; showTooltip for a point without a matching item
\* updates nothing and emits neither tooltip:show nor tooltip:change.
C25_MissingDataGivesEmptyResults ==
  /\ []EmptyResults
  /\ [][ /\ (lastOp'.op = "showTooltip" /\ NoMatch(lastOp'.view, lastOp'.point))
              => /\ Is([World' EXCEPT !.log = log])
                 /\ \A v \in ViewIds :
                      /\ Emitted(World', "tooltip:show", v) = 0
                      /\ Emitted(World', "tooltip:change", v) = 0
         /\ (lastOp'.op = "render" /\ geometries[lastOp'.view] = << >>)
              => /\ Emitted(World', "afterrender", lastOp'.view) = 1
                 /\ geometries'[lastOp'.view] = << >> ]_vars

\* showTooltip for a point without a matching item, on a view whose tooltip
\* showed items before, next to a view without geometries
C25_Witness ==
  /\ lastOp.op = "showTooltip"
  /\ NoMatch(lastOp.view, lastOp.point)
  /\ tooltipItems[lastOp.view] # << >>
  /\ \E v \in ViewIds : geometries[v] = << >>

(* ------------------------------------------------------------------ *)
(* changeData                                                              *)
(* ------------------------------------------------------------------ *)
\* C26: changeData(data) changes the data of the view it is called on and of
\* no other view: afterwards options.data of that view is data, and
\* options.data of every child view is what it was before the call.
C26_ChangeDataOnlyOnView ==
  [][ lastOp'.op = "changeData"
        => /\ options'[lastOp'.view].data = lastOp'.ref
           /\ \A u \in ViewIds \ {lastOp'.view} : options'[u].data = options[u].data ]_vars

(* ------------------------------------------------------------------ *)
(* Controllers                                                             *)
(* ------------------------------------------------------------------ *)
\* C27: in every reachable state each view of the tree holds exactly one
\* controller per registered component type, the names of its controllers
\* being unique; this holds for the root, for the children created with
\* createView() and for the children declared in options.views.
C27_OneControllerPerType ==
  \A v \in ViewIds :
    /\ Len(controllers[v]) = 4
    /\ \A n \in {"axis", "legend", "tooltip", "annotation"} :
         Cardinality({i \in 1..Len(controllers[v]) : controllers[v][i].name = n}) = 1

(* ------------------------------------------------------------------ *)
(* The scale pool of the root                                              *)
(* ------------------------------------------------------------------ *)
\* the entries of the log that create or update a scale of a pool
PoolWrites(w) == SelectSeq(w.log, LAMBDA e : e.ev \in {"scale.create", "scale.update"})

\* the root of the tree the view is in, found by its parents
RootOf(v) == CHOOSE r \in ViewIds : parent[r] = 0 /\ v \in Subtree(World, r)

\* C28: only the scale pool of the root ever holds entries: after any
\* sequence of createScale, render, changeData, createView and clear the pool
\* of every view that is not the root is empty, every createScale call ends
\* in exactly one createScale on the pool of the root, and getScaleByField on
\* any view reads the pool of the root.
C28_OnlyRootPoolHoldsScales ==
  /\ [](\A v \in ViewIds :
          /\ parent[v] # 0 => DOMAIN scalePool[v] = {}
          /\ \A f \in Fields :
               getScaleByField(World, v, f, NoKey) =
                 (IF getScaleKey(v, f) \in DOMAIN scalePool[RootOf(v)]
                  THEN scalePool[RootOf(v)][getScaleKey(v, f)] ELSE Undefined))
  /\ [][ /\ \A i \in 1..Len(PoolWrites(World')) : parent'[PoolWrites(World')[i].view] = 0
         /\ lastOp'.op = "createScale" => Len(PoolWrites(World')) = 1 ]_vars

\* createScale called on a child view: the scale is in the pool of the root,
\* next to the scales of a render, and the pool of the child is empty
C28_Witness ==
  /\ lastOp.op = "createScale"
  /\ parent[lastOp.view] # 0
  /\ lastOp.key = NoKey
  /\ getScaleKey(lastOp.view, "year") \in DOMAIN scalePool[1]
  /\ Cardinality(DOMAIN scalePool[1]) >= 2
  /\ DOMAIN scalePool[lastOp.view] = {}

(* ------------------------------------------------------------------ *)
(* The definition of a scale, merged on the way to the root                *)
(* ------------------------------------------------------------------ *)
\* the view and its ancestors, the view first
RECURSIVE Ancestry(_)
Ancestry(v) == IF parent[v] = 0 THEN << v >> ELSE << v >> \o Ancestry(parent[v])

\* the definitions of the field, the nearest to the data first: the one of the
\* caller, the one of the view, the one of its parent, up to the root
Levels(v, field, callerDef) ==
  << callerDef >> \o [i \in 1..Len(Ancestry(v)) |-> Get(ScalesOf(World, Ancestry(v)[i]), field)]

\* the value of an option in the first level that defines it
Nearest(levels, k) ==
  LET defining == {i \in 1..Len(levels) : k \in DOMAIN levels[i]}
  IN levels[CHOOSE i \in defining : \A j \in defining : i <= j][k]

NearestWins(levels) ==
  [k \in UNION {DOMAIN levels[i] : i \in 1..Len(levels)} |-> Nearest(levels, k)]

\* C29: the definition createScale hands to the pool of the root holds, for
\* every option, the value of the level nearest to the calling view that
\* defines it (the caller, then the view, then its parent, up to the root);
\* an entry the key already has is updated in place and the same instance is
\* returned, otherwise one entry is registered.
C29_NearestDefinitionWins ==
  [][ (lastOp'.op = "createScale" /\ "scaleDef" \in DOMAIN lastOp') =>
        LET v == lastOp'.view
            key == getScaleKey(v, lastOp'.field)
            root == RootOf(v)
        IN /\ key \in DOMAIN scalePool'[root]
           /\ lastOp'.returned = scalePool'[root][key]
           /\ scaleHeap'[scalePool'[root][key]].def =
                NearestWins(Levels(v, lastOp'.field, lastOp'.scaleDef))
           /\ IF key \in DOMAIN scalePool[root]
              THEN /\ scalePool'[root] = scalePool[root]
                   /\ Len(scaleHeap') = Len(scaleHeap)
              ELSE /\ DOMAIN scalePool'[root] = DOMAIN scalePool[root] \cup {key}
                   /\ Len(scaleHeap') = Len(scaleHeap) + 1 ]_vars

\* createScale on a child whose key has an entry: min is defined by the
\* caller and the child, max by the child and the root, tickCount by the root
C29_Witness ==
  /\ lastOp.op = "createScale"
  /\ "scaleDef" \in DOMAIN lastOp
  /\ parent[lastOp.view] # 0
  /\ lastOp.scaleDef = [min |-> 1]
  /\ Get(ScalesOf(World, lastOp.view), "year") = [min |-> 5, max |-> 9]
  /\ Get(ScalesOf(World, parent[lastOp.view]), "year") = [max |-> 3, tickCount |-> 4]
  /\ lastOp.existed
  /\ scaleHeap[lastOp.returned].def = [min |-> 1, max |-> 9, tickCount |-> 4]
  /\ Len(scaleHeap) = 1

(* ------------------------------------------------------------------ *)
(* The data the scales of a view are built from                            *)
(* ------------------------------------------------------------------ *)
\* the field is a grouping field of some geometry of the view
IsGrouped(v, f) == \E i \in 1..Len(geometries[v]) : f \in Range(geometries[v][i].groupFields)

\* the values of the field in the rows of data
ValuesIn(f, data) == {data[i][f] : i \in 1..Len(data)}

\* the values of the field that the filters of the view removed
RemovedValues(v, f) == ValuesIn(f, DataOf(World, v)) \ ValuesIn(f, filteredData[v])

\* the values of the scale of the field of the view, read from the pool
DomainOf(v, f) == scaleHeap[ScaleOf(v, f)].values

\* C30: after a data pass the scale of a field that a geometry of the view
\* groups by holds the values of the unfiltered data of the view, and the
\* scale of every other field the values of the filtered data: a value
\* removed by a filter stays in the domain of a grouping-field scale and
\* leaves the domain of the other scales.
C30_GroupedScalesFromUnfilteredData ==
  lastOp.op = "render" =>
    \A v \in Subtree(World, lastOp.view) :
      \A f \in Range(getScaleFields(World, v)) :
        IF IsGrouped(v, f)
        THEN /\ Range(DomainOf(v, f)) = ValuesIn(f, DataOf(World, v))
             /\ RemovedValues(v, f) \subseteq Range(DomainOf(v, f))
        ELSE IF filteredData[v] = << >>
        THEN DomainOf(v, f) = << f >>
        ELSE /\ Range(DomainOf(v, f)) = ValuesIn(f, filteredData[v])
             /\ RemovedValues(v, f) \cap Range(DomainOf(v, f)) = {}

\* a view rendered with the rows of 1992 filtered out: 1992 is a value of the
\* year scale its interval groups by, and 34 is no value of the value scale
C30_Witness ==
  /\ lastOp.op = "render"
  /\ \E v \in ViewIds :
       /\ geometries[v] # << >>
       /\ "year" \in DOMAIN options[v].filters
       /\ IsGrouped(v, "year") /\ ~IsGrouped(v, "value")
       /\ "1992" \in RemovedValues(v, "year")
       /\ 34 \in RemovedValues(v, "value")
       /\ "1992" \in Range(DomainOf(v, "year"))
       /\ 34 \notin Range(DomainOf(v, "value"))
       /\ 13 \in Range(DomainOf(v, "value"))

(* ------------------------------------------------------------------ *)
(* The views of a facet in the render cycle                                *)
(* ------------------------------------------------------------------ *)
\* the views the facet of the view has created, in the state w
FacetViews(w, v) ==
  IF w.facetInstance[v] = NoFacet \/ w.facetInstance[v].destroyed THEN {}
  ELSE Range(w.facetInstance[v].facetViews)

\* the place of the first entry of the event of the view in the log, 0 if there is none
PlaceOf(w, ev, v) ==
  LET at == {i \in 1..Len(w.log) : w.log[i].ev = ev /\ w.log[i].view = v}
  IN IF at = {} THEN 0 ELSE CHOOSE i \in at : \A j \in at : i <= j

\* C31: the facet of a view is cleared, initialised and rendered in the data
\* pass of the view before the pass recurses into its children: every view
\* the facet creates in a render() gets its data pass, its layout pass and
\* its paint pass once within that render(), after the facet was rendered,
\* and the views of the previous expansion are not rendered again.
C31_FacetViewsInSameCycle ==
  [][ lastOp'.op = "render" =>
        \A v \in Subtree(World', lastOp'.view) :
          /\ \A fv \in FacetViews(World', v) :
               /\ fv > Len(parent)
               /\ fv \in Range(views'[v])
               /\ \A ev \in {"data", "layout", "paint"} : Emitted(World', ev, fv) = 1
               /\ PlaceOf(World', "facet.render", v) < PlaceOf(World', "data", fv)
               /\ PlaceOf(World', "data", fv) < PlaceOf(World', "layout", lastOp'.view)
          /\ v <= Len(parent) =>
               \A old \in FacetViews(World, v) :
                 /\ destroyed'[old]
                 /\ old \notin Range(views'[v])
                 /\ \A ev \in {"data", "layout", "paint"} : Emitted(World', ev, old) = 0 ]_vars

\* the second render of a view with a facet: the two views of the first
\* expansion are destroyed and the two of this one went through the passes
C31_Witness ==
  /\ lastOp.op = "render"
  /\ \E v \in ViewIds :
       /\ Cardinality(FacetViews(World, v)) = 2
       /\ \E old \in ViewIds : parent[old] = v /\ destroyed[old] /\ old \notin Range(views[v])
       /\ \A fv \in FacetViews(World, v) :
            ~destroyed[fv] /\ Emitted(World, "paint", fv) = 1

(* ------------------------------------------------------------------ *)
(* The boxes of the views after the layout pass                            *)
(* ------------------------------------------------------------------ *)
\* the box is the part of the outer box between start and end, both given in halves
IsPartOf(b, outer, start, end) ==
  /\ 2 * (b.x - outer.x) = outer.width * start.x
  /\ 2 * (b.y - outer.y) = outer.height * start.y
  /\ 2 * b.width = outer.width * (end.x - start.x)
  /\ 2 * b.height = outer.height * (end.y - start.y)

Inside(b, outer) ==
  /\ outer.x <= b.x /\ b.x + b.width <= outer.x + outer.width
  /\ outer.y <= b.y /\ b.y + b.height <= outer.y + outer.height

\* the box the layout of a pass starts from, and the box it leaves
LaidOut(b) ==
  BBox(b.x + DefaultPadding.x, b.y + DefaultPadding.y,
       b.width - 2 * DefaultPadding.x, b.height - 2 * DefaultPadding.y)

\* C32: after a render the box of every view below the rendered one is the
\* part of the coordinate box of its parent, as the layout of the parent
\* left it in this pass, that its region names (the canvas for the root);
\* the layout of the view started from its view box; and the view box lies
\* inside the coordinate box of the parent whenever that box has a size.
C32_ViewBoxFromParentCoordinateBox ==
  lastOp.op = "render" =>
    \A v \in Subtree(World, lastOp.view) :
      /\ coordinateBBox[v] = LaidOut(viewBBox[v])
      /\ parent[v] = 0 =>
           IsPartOf(viewBBox[v], BBox(0, 0, Canvas.width, Canvas.height),
                    region[v].start, region[v].end)
      /\ (parent[v] # 0 /\ v # lastOp.view) =>
           /\ IsPartOf(viewBBox[v], coordinateBBox[parent[v]], region[v].start, region[v].end)
           /\ (coordinateBBox[parent[v]].width >= 0 /\ coordinateBBox[parent[v]].height >= 0)
                 => Inside(viewBBox[v], coordinateBBox[parent[v]])

\* the root rendered a second time with a child on the lower right quarter of its plot
C32_Witness ==
  /\ lastOp.op = "render" /\ lastOp.view = 1 /\ lastOp.isUpdate
  /\ coordinateBBox[1] = BBox(2, 2, 20, 20)
  /\ \E v \in ViewIds :
       /\ parent[v] = 1
       /\ region[v].start = [x |-> 1, y |-> 1]
       /\ viewBBox[v] = BBox(12, 12, 10, 10)
       /\ coordinateBBox[v] = BBox(14, 14, 6, 6)

(* ------------------------------------------------------------------ *)
(* The extent and the ticks of a ScaleDef after update()                   *)
(* ------------------------------------------------------------------ *)
\* C33: after every update() on a ScaleDef of a continuous type the min
\* option is the first and the max option the last element of the domain
\* this update resolved, and the tick values are those of the scale as this
\* update left it, under the transform.
C33_ExtentMirrorsResolvedDomain ==
  (lastOp.op \in {"update", "construct"} /\ isContinuous(scaleDefInst)
     /\ ResolvedDomain(scaleDefInst) # << >>)
    => /\ Extent(scaleDefInst) =
            [min |-> ResolvedDomain(scaleDefInst)[1],
             max |-> ResolvedDomain(scaleDefInst)[Len(ResolvedDomain(scaleDefInst))]]
       /\ scaleDefInst.tickValues =
            MapSeq(getOptions(scaleDefInst).transform, ScaleGetTicks(scaleDefInst.scale))

(* ------------------------------------------------------------------ *)
(* The tick method of a ScaleDef                                           *)
(* ------------------------------------------------------------------ *)
\* the method the options ask for: the ticks given, else the function given,
\* else the registered method of the name given, else the one of the type,
\* else the generic one
TickMethodByPriority(o) ==
  IF "ticks" \in DOMAIN o THEN << "ticks", o.ticks >>
  ELSE IF "tickMethod" \in DOMAIN o /\ o.tickMethod.kind = "function"
  THEN << "function", o.tickMethod.name >>
  ELSE IF "tickMethod" \in DOMAIN o /\ o.tickMethod.kind = "string"
          /\ o.tickMethod.name \in
               {"d3-ticks", "wilkinson-extended", "r-pretty", "strick-count", "d3-log", "d3-time"}
  THEN (CASE o.tickMethod.name = "d3-ticks" -> << "d3Ticks" >>
          [] o.tickMethod.name = "wilkinson-extended" -> << "wilkinsonExtended" >>
          [] o.tickMethod.name = "r-pretty" -> << "rPretty" >>
          [] o.tickMethod.name = "strick-count" -> << "strickCount" >>
          [] o.tickMethod.name = "d3-log" -> << "d3Log" >>
          [] o.tickMethod.name = "d3-time" -> << "d3Time" >>)
  ELSE IF o.type = "log" THEN << "d3Log" >>
  ELSE IF o.type = "time" THEN << "d3Time" >>
  ELSE << "d3Ticks" >>

\* C34: the tick method a ScaleDef gives its scale follows the priority for
\* every combination of options: explicit ticks, else a tickMethod function,
\* else the registered method a tickMethod string names, else the default of
\* the type (log, time), else the generic default; a name that is not
\* registered falls through to the default of the type.
C34_TickMethodPriority ==
  lastOp.op \in {"update", "construct"} =>
    scaleDefInst.scale.options.tickMethod = TickMethodByPriority(scaleDefInst.options)

(* ------------------------------------------------------------------ *)
(* The range of a category scale on a transposed full circle               *)
(* ------------------------------------------------------------------ *)
\* widthRatio.multiplePie of the theme of the view, 1/1.3 when the theme does not set it
WidthRatioOf(v) ==
  IF "widthRatio" \in DOMAIN themeObject[v] /\ "multiplePie" \in DOMAIN themeObject[v].widthRatio
  THEN themeObject[v].widthRatio.multiplePie
  ELSE Frac(10, 13)

\* [offset / 2, 1 - offset / 2] with offset = widthRatio / n
CenteredRange(widthRatio, n) ==
  << Frac(widthRatio[1], 2 * n * widthRatio[2]),
     Frac(2 * n * widthRatio[2] - widthRatio[1], 2 * n * widthRatio[2]) >>

\* C35: on a transposed full circle the range of a category or identity
\* scale of n >= 2 values without a range of the user is
\* [offset/2, 1 - offset/2] with offset = widthRatio / n, where widthRatio is
\* widthRatio.multiplePie of the theme of the view when the theme sets it,
\* and 1/1.3 only when it does not.
C35_WidthRatioFromTheme ==
  lastOp.op = "render" =>
    \A v \in Subtree(World, lastOp.view) :
      (geometries[v] # << >> /\ isFullCircle(coordinateInstance[v])
         /\ coordinateInstance[v].isTransposed)
        => LET x == scaleHeap[getXScale(World, v)]
           IN (x.type \in CategoryTypes \cup {"identity"} /\ Len(x.values) >= 2
                 /\ "range" \notin DOMAIN Get(ScalesOf(World, v), x.field))
                => x.range = CenteredRange(WidthRatioOf(v), Len(x.values))

(* ------------------------------------------------------------------ *)
(* Events after destroy()                                                  *)
(* ------------------------------------------------------------------ *)
\* the view or one of the views above it was destroyed
Gone(v) == \E i \in 1..Len(Ancestry(v)) : destroyed[Ancestry(v)[i]]

\* C36 as stated: after destroy() a view reacts to no further event: no
\* canvas or layer event makes the destroyed view or a view below it emit
\* anything or change its isPreMouseInPlot, while the other views of the
\* canvas still emit the name of every canvas event.
C36_DestroyedViewsReactToNothing ==
  [][ lastOp'.op \in {"canvasEvent", "layerEvent"} =>
        \A v \in ViewIds :
          IF Gone(v)
          THEN /\ EmittedBy(World', v) = << >>
               /\ isPreMouseInPlot'[v] = isPreMouseInPlot[v]
          ELSE lastOp'.op = "canvasEvent" => Emitted(World', lastOp'.evt.type, v) = 1 ]_vars

C38_ShowOnceChangeOnNewContent ==
  [][ /\ (lastOp'.op = "tooltipShow" /\ lastOp'.items # << >>)
           => LET changed == \/ getTitle(lastOp'.items) # tooltipCtl.title
                             \/ lastOp'.items # tooltipCtl.items
              IN log' = IF changed
                        THEN << Entry("tooltip:show", 1, 0), Entry("tooltip:change", 1, 0) >>
                        ELSE << Entry("tooltip:show", 1, 0) >>
      /\ lastOp'.op = "tooltipHide"
           => /\ log' = << Entry("tooltip:hide", 1, 0) >>
              /\ tooltipCtl'.items = tooltipCtl.items
              /\ tooltipCtl'.title = tooltipCtl.title ]_vars

\* the content shown before is shown again right after a hide, without tooltip:change
C38_Witness ==
  /\ lastOp.op = "tooltipShow" /\ lastOp.items # << >>
  /\ lastOp.after = "tooltipHide"
  /\ lastOp.last = lastOp.items
  /\ log = << Entry("tooltip:show", 1, 0) >>

(* ------------------------------------------------------------------ *)
(* The items of the tooltip                                                *)
(* ------------------------------------------------------------------ *)
\* the records the geometries that are visible and have a tooltip hold
RecordsShown(t) ==
  UNION { UNION { Range(t.geometries[i].dataArray[k]) :
                    k \in 1..Len(t.geometries[i].dataArray) } :
            i \in {i \in 1..Len(t.geometries) :
                     t.geometries[i].visible /\ t.geometries[i].tooltipOption} }

\* the items found for the point before any is dropped
Candidates(t, point) ==
  LET shared == ~("shared" \in DOMAIN t.option /\ t.option.shared = FALSE)
      found == ItemsFrom(t.geometries, point, shared, 1)
  IN {Placed(found[i]) : i \in 1..Len(found)}

\* C39: getTooltipItems(point) returns no two items with the same color,
\* name, value and title, and items of one title: when the items found have
\* different titles, the ones kept are those with the title of the item
\* nearest to the point, else all are kept; no item comes from a geometry
\* that is hidden or whose tooltip option is false.
C39_ItemsDistinctWithOneTitle ==
  \A point \in TipPoints :
    LET items == Tooltip_getTooltipItems(tooltipCtl, point)
        found == Candidates(tooltipCtl, point)
    IN /\ \A i, j \in 1..Len(items) : SameItem(items[i], items[j]) => i = j
       /\ \A i, j \in 1..Len(items) : items[i].title = items[j].title
       /\ \A c \in found :
            (\E i \in 1..Len(items) : SameItem(items[i], c))
              <=> \E n \in found :
                    /\ \A m \in found : distance(point, n) <= distance(point, m)
                    /\ n.title = c.title
       /\ \A i \in 1..Len(items) : \E r \in RecordsShown(tooltipCtl) : Placed(r) = items[i]

\* showTooltip at a point where an item is found twice and the items found
\* have two titles, next to a geometry that adds none
C39_Witness ==
  /\ lastOp.op = "tooltipShow" /\ lastOp.items # << >>
  /\ LET shared == ~("shared" \in DOMAIN tooltipCtl.option /\ tooltipCtl.option.shared = FALSE)
         found == ItemsFrom(tooltipCtl.geometries, lastOp.point, shared, 1)
     IN /\ Len(found) > Cardinality(Range(found))
        /\ \E i, j \in 1..Len(found) : found[i].title # found[j].title
        /\ Len(lastOp.items) < Cardinality(Range(found))

(* ------------------------------------------------------------------ *)
(* Interactions                                                            *)
(* ------------------------------------------------------------------ *)
\* C40 as stated: after any sequence of interaction(name),
\* removeInteraction(name) and destroy() on a view, every instance the view
\* stores under a name is live, and no instance was destroyed more than
\* once, also when createInteraction gave no instance to replace one.
C40_StoredInteractionsLive ==
  \A v \in ViewIds : \A n \in InteractionNames :
    interactions[v][n].state # "none"
      => /\ interactions[v][n].state = "live"
         /\ interactions[v][n].destroys <= 1

====
